---- MODULE Spec2Model ----
(***************************************************************************)
(* CachePool: LruCache, LfuCache and ArcCache (ArcLruPart + ArcLfuPart).   *)
(* Every public call is one action; the private helpers are operators on   *)
(* the value of the cache object.  Lists are sequences in head -> tail     *)
(* order of the linked list, the sentinels left out.                       *)
(***************************************************************************)
EXTENDS Integers, Sequences, FiniteSets, TLC

\* ---------------------------------------------------------------- bounds
MaxKey == 2
MaxWideKey == 3
MaxVal == 2
MaxCap == 2
MaxNodes == 4
MaxGhost == 3
MaxFreq == 3
MaxTotal == 4
MaxCount == 3

Keys == 0..MaxKey
\* the keys of a workload of puts alone
WideKeys == 0..MaxWideKey
Values == 1..MaxVal
\* Value{} : what get(key) hands back on a miss
NoValue == 0
\* Key() : the key stored in a sentinel node
NoKey == 0
Capacities == (0 - 1)..MaxCap

VARIABLES lru, lruUse, lfu, arc, written, last, s5, lruk, lrukUse,
          thr, mutex, serial, calls, hashLru, hashLfu

\* the variables of the scenarios and of the composed caches
s5Vars == <<s5>>

lrukVars == <<lruk, lrukUse>>

threadVars == <<thr, mutex, serial, calls>>

shardVars == <<hashLru, hashLfu>>

ext == <<s5Vars, lrukVars, threadVars, shardVars>>

vars == <<lru, lruUse, lfu, arc, written, last, ext>>

\* ------------------------------------------------------- sequence helpers
RemoveAt(s, i) == SubSeq(s, 1, i - 1) \o SubSeq(s, i + 1, Len(s))

RemoveKey(s, k) == SelectSeq(s, LAMBDA x : x # k)

SeqSet(s) == {s[i] : i \in 1..Len(s)}

\* the observation of a call: its arguments, what it returned, and the keys
\* that stopped being resident during it
Call(op, k, v, hit, out, gone) ==
    [op |-> op, key |-> k, value |-> v, hit |-> hit, out |-> out, gone |-> gone]

NoCall == Call("new", NoKey, NoValue, FALSE, NoValue, {})

\* =================================================================== LRU
\* lru.list  : the nodes between dummyHead_ and dummyTail_, LRU end first;
\*             node.inMap says that nodeMap_[node.key] is this node
LruNew(capacity) == [capacity_ |-> capacity, list |-> <<>>]

LruNodeOf(k, v) == [key |-> k, value |-> v, inMap |-> TRUE]

\* the keys of nodeMap_
LruKeys(c) == {c.list[i].key : i \in {j \in 1..Len(c.list) : c.list[j].inMap}}

LruSize(c) == Cardinality(LruKeys(c))

\* nodeMap_.find(key)->second, as a position in the list
LruFind(c, k) == CHOOSE i \in 1..Len(c.list) : c.list[i].key = k /\ c.list[i].inMap

\* nodeMap_.erase(key)
LruErase(c, k) ==
    [c EXCEPT !.list = [i \in 1..Len(@) |->
        IF @[i].key = k THEN [@[i] EXCEPT !.inMap = FALSE] ELSE @[i]]]

LruRemoveNode(c, i) == [c EXCEPT !.list = RemoveAt(@, i)]

LruInsertNode(c, node) == [c EXCEPT !.list = Append(@, node)]

LruMoveToMostRecent(c, i) == LruInsertNode(LruRemoveNode(c, i), c.list[i])

LruEvictLeastRecent(c) == LruErase(LruRemoveNode(c, 1), c.list[1].key)

\* the body builds a new node for the key of the node it is given, and
\* nodeMap_[key] = newNode leaves the old node in the list
LruUpdateExistingNode(c, k, v) ==
    LET c1 == IF LruSize(c) >= c.capacity_ THEN LruEvictLeastRecent(c) ELSE c
    IN  LruInsertNode(LruErase(c1, k), LruNodeOf(k, v))

LruAddNewNode(c, k, v) ==
    LET c1 == IF LruSize(c) = c.capacity_ THEN LruEvictLeastRecent(c) ELSE c
    IN  LruInsertNode(c1, LruNodeOf(k, v))

LruPut(c, k, v) ==
    IF c.capacity_ <= 0 THEN c
    ELSE IF k \in LruKeys(c) THEN LruUpdateExistingNode(c, k, v)
    ELSE LruAddNewNode(c, k, v)

LruGet(c, k) ==
    IF k \in LruKeys(c)
    THEN [cache |-> LruMoveToMostRecent(c, LruFind(c, k)), hit |-> TRUE,
          out |-> c.list[LruFind(c, k)].value]
    ELSE [cache |-> c, hit |-> FALSE, out |-> NoValue]

\* remove unlinks the least recent node whatever the key
LruRemoveLeastRecent(c, k) ==
    IF k \in LruKeys(c) THEN LruRemoveNode(c, 1) ELSE c

LruRemove(c, k) ==
    IF k \in LruKeys(c) THEN LruRemoveNode(c, LruFind(c, k)) ELSE c

\* the resident keys in the order of their most recent put or get, oldest first
Used(use, k, resident) ==
    SelectSeq(RemoveKey(use, k) \o <<k>>, LAMBDA x : x \in resident)

LruInit ==
    /\ lru \in {LruNew(c) : c \in Capacities}
    /\ lruUse = <<>>

LruDoPut ==
    \E k \in Keys, v \in Values :
        /\ Len(lru.list) < MaxNodes
        /\ lru' = LruPut(lru, k, v)
        /\ lruUse' = Used(lruUse, k, LruKeys(lru'))
        /\ last' = Call("put", k, v, FALSE, NoValue, LruKeys(lru) \ LruKeys(lru'))
        /\ UNCHANGED <<lfu, arc, written, ext>>

LruDoGet ==
    \E k \in Keys : \E r \in {LruGet(lru, k)} :
        /\ lru' = r.cache
        /\ lruUse' = IF r.hit THEN Used(lruUse, k, LruKeys(lru')) ELSE lruUse
        /\ last' = Call("get", k, NoValue, r.hit, r.out, {})
        /\ UNCHANGED <<lfu, arc, written, ext>>

LruDoRemove ==
    \E k \in Keys :
        /\ lru' = LruRemove(lru, k)
        /\ lruUse' = RemoveKey(lruUse, k)
        /\ last' = Call("remove", k, NoValue, FALSE, NoValue, LruKeys(lru) \ LruKeys(lru'))
        /\ UNCHANGED <<lfu, arc, written, ext>>

LruIdle == lru = LruNew(0) /\ lruUse = <<>>

\* =================================================================== LFU
INT8_MAX == 127

MaxAverageNums == {1, 2}

EmptyMap == [x \in {} |-> 0]

MapPut(f, k, v) == [x \in DOMAIN f \cup {k} |-> IF x = k THEN v ELSE f[x]]

MapErase(f, k) == [x \in DOMAIN f \ {k} |-> f[x]]

Min(S) == CHOOSE x \in S : \A y \in S : x <= y

\* int / size_t, stored in an int : the int operand is converted to a 64-bit
\* unsigned, and the low 32 bits of the quotient are kept.  For a negative
\* total the dividend 2^64 + total is divided digit by digit in base 2^16.
Base16 == 65536

DivStep(acc, d, n) ==
    [q |-> (acc.r * Base16 + d) \div n, r |-> (acc.r * Base16 + d) % n]

DivSizeT(total, n) ==
    IF total >= 0 THEN total \div n
    ELSE LET s1 == DivStep([q |-> 0, r |-> 0], Base16 - 1, n)
             s2 == DivStep(s1, Base16 - 1, n)
             s3 == DivStep(s2, Base16 - 1, n)
             s4 == DivStep(s3, Base16 + total, n)
         IN  IF s3.q >= Base16 \div 2
             THEN (s3.q - Base16) * Base16 + s4.q
             ELSE s3.q * Base16 + s4.q

\* nodeMap_.size() == capacity_ : the int is converted to size_t, so a
\* negative capacity equals no size
SizeEq(size, capacity) == capacity >= 0 /\ size = capacity

\* lfu.nodeMap_        : key -> [freq, value] of its node
\* lfu.freqToFreqList_ : freq -> the keys of the nodes of that FreqList, head first
LfuNew(capacity, maxAverageNum) ==
    [capacity_ |-> capacity, minFreq_ |-> INT8_MAX, maxAverageNum_ |-> maxAverageNum,
     curAverageNum_ |-> 0, curTotalNum_ |-> 0,
     nodeMap_ |-> EmptyMap, freqToFreqList_ |-> EmptyMap]

LfuKeys(c) == DOMAIN c.nodeMap_

LfuSize(c) == Cardinality(LfuKeys(c))

FreqListIsEmpty(c, f) == c.freqToFreqList_[f] = <<>>

\* removeFromFreqList that leaves the node in its list
LfuLeaveInFreqList(c, k) == c

LfuRemoveFromFreqList(c, k) ==
    [c EXCEPT !.freqToFreqList_[c.nodeMap_[k].freq] = RemoveKey(@, k)]

LfuAddToFreqList(c, k) ==
    LET f == c.nodeMap_[k].freq
    IN  IF f \in DOMAIN c.freqToFreqList_
        THEN [c EXCEPT !.freqToFreqList_[f] = Append(@, k)]
        ELSE [c EXCEPT !.freqToFreqList_ = MapPut(@, f, <<k>>)]

\* getInternal that leaves minFreq_ as it is
LfuGetInternalKeepsMin(c, k) ==
    LfuAddToFreqList([LfuRemoveFromFreqList(c, k) EXCEPT !.nodeMap_[k].freq = @ + 1], k)

LfuGetInternal(c, k) ==
    LET c1 == LfuRemoveFromFreqList(c, k)
        c2 == [c1 EXCEPT !.nodeMap_[k].freq = @ + 1]
        c3 == LfuAddToFreqList(c2, k)
        f  == c3.nodeMap_[k].freq
    IN  IF f - 1 = c3.minFreq_ /\ FreqListIsEmpty(c3, f - 1)
        THEN [c3 EXCEPT !.minFreq_ = @ + 1]
        ELSE c3

LfuUpdateMinFreq(c) ==
    LET m == Min({INT8_MAX} \cup {f \in DOMAIN c.freqToFreqList_ : ~FreqListIsEmpty(c, f)})
    IN  [c EXCEPT !.minFreq_ = IF m = INT8_MAX THEN 1 ELSE m]

\* one round of the loop over nodeMap_, for the node of key k
LfuAgeNode(c, k) ==
    LET c1 == LfuRemoveFromFreqList(c, k)
        f  == c.nodeMap_[k].freq - (c.maxAverageNum_ \div 2)
        c2 == [c1 EXCEPT !.nodeMap_[k].freq = IF f < 1 THEN 1 ELSE f]
    IN  LfuAddToFreqList(c2, k)

RECURSIVE LfuAgeAll(_, _)
LfuAgeAll(c, order) ==
    IF order = <<>> THEN c
    ELSE LfuAgeAll(IF Head(order) \in LfuKeys(c) THEN LfuAgeNode(c, Head(order)) ELSE c,
                   Tail(order))

\* order : the iteration order of nodeMap_, which the container leaves open
LfuHandleOverMaxAverageNum(c, order) ==
    IF LfuKeys(c) = {} THEN c ELSE LfuUpdateMinFreq(LfuAgeAll(c, order))

LfuAverage(c) ==
    IF LfuKeys(c) = {} THEN 0 ELSE DivSizeT(c.curTotalNum_, LfuSize(c))

LfuAddFreqNum(c, order) ==
    LET c1 == [c EXCEPT !.curTotalNum_ = @ + 1]
        c2 == [c1 EXCEPT !.curAverageNum_ = LfuAverage(c1)]
    IN  IF c2.curAverageNum_ > c2.maxAverageNum_
        THEN LfuHandleOverMaxAverageNum(c2, order)
        ELSE c2

LfuDecreaseFreqNum(c, num) ==
    LET c1 == [c EXCEPT !.curTotalNum_ = @ - num]
    IN  [c1 EXCEPT !.curAverageNum_ = LfuAverage(c1)]

\* kickOut taking the node at the tail of the list of minFreq_, the newest
LfuKickOutNewest(c) ==
    IF c.minFreq_ \in DOMAIN c.freqToFreqList_ /\ ~FreqListIsEmpty(c, c.minFreq_)
    THEN LET l  == c.freqToFreqList_[c.minFreq_]
             k  == l[Len(l)]
             c1 == LfuRemoveFromFreqList(c, k)
             c2 == [c1 EXCEPT !.nodeMap_ = MapErase(@, k)]
         IN  LfuDecreaseFreqNum(c2, k)
    ELSE LfuDecreaseFreqNum([c EXCEPT !.nodeMap_ = MapErase(@, NoKey)], NoKey)

\* getFirstNode() of an empty FreqList is its tail sentinel: removeNode leaves
\* it alone, and its key, Key(), is erased from nodeMap_ and subtracted
LfuKickOut(c) ==
    IF c.minFreq_ \in DOMAIN c.freqToFreqList_ /\ ~FreqListIsEmpty(c, c.minFreq_)
    THEN LET k  == Head(c.freqToFreqList_[c.minFreq_])
             c1 == LfuRemoveFromFreqList(c, k)
             c2 == [c1 EXCEPT !.nodeMap_ = MapErase(@, k)]
         IN  LfuDecreaseFreqNum(c2, k)
    ELSE LfuDecreaseFreqNum([c EXCEPT !.nodeMap_ = MapErase(@, NoKey)], NoKey)

LfuPutInternal(c, k, v, order) ==
    LET c1 == IF SizeEq(LfuSize(c), c.capacity_) THEN LfuKickOut(c) ELSE c
        c2 == [c1 EXCEPT !.nodeMap_ = MapPut(@, k, [freq |-> 1, value |-> v])]
        c3 == LfuAddFreqNum(LfuAddToFreqList(c2, k), order)
    IN  [c3 EXCEPT !.minFreq_ = IF @ < 1 THEN @ ELSE 1]

\* put of a resident key that counts the access and keeps the old value
LfuPutKeepsValue(c, k, v, order) ==
    IF c.capacity_ = 0 THEN c
    ELSE IF k \in LfuKeys(c)
    THEN LfuGetInternal(c, k)
    ELSE LfuPutInternal(c, k, v, order)

LfuPut(c, k, v, order) ==
    IF c.capacity_ = 0 THEN c
    ELSE IF k \in LfuKeys(c)
    THEN LfuGetInternal([c EXCEPT !.nodeMap_[k].value = v], k)
    ELSE LfuPutInternal(c, k, v, order)

LfuGet(c, k) ==
    IF k \in LfuKeys(c)
    THEN [cache |-> LfuGetInternal(c, k), hit |-> TRUE, out |-> c.nodeMap_[k].value]
    ELSE [cache |-> c, hit |-> FALSE, out |-> NoValue]

\* the sequences that list every key of S once: the orders in which an
\* iteration of nodeMap_ can visit the keys S
Orders(S) == {o \in [1..Cardinality(S) -> S] : SeqSet(o) = S}

LfuInit == lfu \in {LfuNew(c, m) : c \in Capacities, m \in MaxAverageNums}

LfuDoPut ==
    \E k \in Keys, v \in Values : \E order \in Orders(LfuKeys(lfu) \cup {k}) :
        /\ lfu.curTotalNum_ < MaxTotal
        /\ lfu.curTotalNum_ > 0 - MaxTotal
        /\ k \in LfuKeys(lfu) => lfu.nodeMap_[k].freq < MaxFreq
        /\ lfu' = LfuPut(lfu, k, v, order)
        /\ last' = Call("put", k, v, FALSE, NoValue, LfuKeys(lfu) \ LfuKeys(lfu'))
        /\ UNCHANGED <<lru, lruUse, arc, written, ext>>

LfuDoGet ==
    \E k \in Keys : \E r \in {LfuGet(lfu, k)} :
        /\ k \in LfuKeys(lfu) => lfu.nodeMap_[k].freq < MaxFreq
        /\ lfu' = r.cache
        /\ last' = Call("get", k, NoValue, r.hit, r.out, {})
        /\ UNCHANGED <<lru, lruUse, arc, written, ext>>

LfuIdle == lfu = LfuNew(0, 1)

\* an LfuCache of three entries under puts of four keys
MaxWideCap == 3

LfuWideInit == lfu \in {LfuNew(MaxWideCap, m) : m \in MaxAverageNums}

LfuDoPutWide ==
    \E k \in WideKeys : \E order \in Orders(LfuKeys(lfu) \cup {k}) :
        /\ lfu.curTotalNum_ < MaxTotal
        /\ lfu.curTotalNum_ > 0 - MaxTotal
        /\ k \in LfuKeys(lfu) => lfu.nodeMap_[k].freq < MaxFreq
        /\ lfu' = LfuPut(lfu, k, 1, order)
        /\ last' = Call("put", k, 1, FALSE, NoValue, LfuKeys(lfu) \ LfuKeys(lfu'))
        /\ UNCHANGED <<lru, lruUse, arc, written, ext>>

\* ================================================================= LRU-K
\* the class derived from LruCache: the main cache is the base class, and
\* historyList_ is an LruCache of the access counts
\* lrukUse : key -> the number of put and get calls made with that key
\* the value " ", which put compares the result of the main cache's get with
Blank == MaxVal + 1

LruKThresholds == {2}

LruKNew(capacity, historyCapacity, k) ==
    [main |-> LruNew(capacity), historyList_ |-> LruNew(historyCapacity), k_ |-> k]

\* what the counting of an access in historyList_ leaves: r is what
\* historyList_->get(key) returned
LruKCount(r, k) == LruPut(r.cache, k, r.out + 1)

\* get when historyList_->get(key) has returned r
LruKGetCounted(c, r, m) ==
    [cache |-> [c EXCEPT !.historyList_ = r, !.main = m.cache],
     hit |-> m.hit, out |-> m.out]

LruKGet(c, k) ==
    LruKGetCounted(c, LruKCount(LruGet(c.historyList_, k), k), LruGet(c.main, k))

\* the end of put: r is what historyList_->get(key) returned
LruKPutCounted(c, main, r, k, v) ==
    IF r.out >= c.k_
    THEN [c EXCEPT !.historyList_ = LruRemove(LruKCount(r, k), k),
                   !.main = LruPut(main, k, v)]
    ELSE [c EXCEPT !.historyList_ = LruKCount(r, k), !.main = main]

\* the start of put: g is what the main cache's get(key) returned
LruKPutFound(c, g, k, v) ==
    LruKPutCounted(c, IF g.out # Blank THEN LruPut(g.cache, k, v) ELSE g.cache,
                   LruGet(c.historyList_, k), k, v)

LruKPut(c, k, v) == LruKPutFound(c, LruGet(c.main, k), k, v)

Uses(use, k) == IF k \in DOMAIN use THEN use[k] ELSE 0

LruKInit ==
    /\ lruk \in {LruKNew(c, h, k) : c \in 1..MaxCap, h \in 1..MaxCap, k \in LruKThresholds}
    /\ lrukUse = EmptyMap

\* the lists and the counts of key k are below the bounds of the model
LruKCounted(c, use, k) ==
    /\ Len(c.main.list) + 1 < MaxNodes
    /\ Len(c.historyList_.list) < MaxNodes
    /\ LruGet(c.historyList_, k).out < MaxCount
    /\ Uses(use, k) < MaxCount

LruKDoPut ==
    \E k \in Keys, v \in {1, Blank} :
        /\ LruKCounted(lruk, lrukUse, k)
        /\ lruk' = LruKPut(lruk, k, v)
        /\ lrukUse' = MapPut(lrukUse, k, Uses(lrukUse, k) + 1)
        /\ last' = Call("put", k, v, FALSE, NoValue,
                        LruKeys(lruk.main) \ LruKeys(lruk'.main))
        /\ UNCHANGED <<lru, lruUse, lfu, arc, written, s5Vars, threadVars, shardVars>>

LruKDoGet ==
    \E k \in Keys : \E r \in {LruKGet(lruk, k)} :
        /\ LruKCounted(lruk, lrukUse, k)
        /\ lruk' = r.cache
        /\ lrukUse' = MapPut(lrukUse, k, Uses(lrukUse, k) + 1)
        /\ last' = Call("get", k, NoValue, r.hit, r.out, {})
        /\ UNCHANGED <<lru, lruUse, lfu, arc, written, s5Vars, threadVars, shardVars>>

LruKIdle == lruk = LruKNew(0, 0, 2) /\ lrukUse = EmptyMap

\* =================================================================== ARC
\* ------------------------------------------------------------ ArcLruPart
\* mainList  : the keys of the main list, mainHead_ side (most recent) first
\* mainCache_ : key -> [value, accessCount] of its node
\* ghostList : the nodes of the ghost list, ghostHead_ side first; node.inMap
\*             says that ghostCache_[node.key] is this node
ArcLruPartNew(capacity, transformThreshold) ==
    [capacity_ |-> capacity, ghostCapacity_ |-> capacity,
     transformThreshold_ |-> transformThreshold,
     mainCache_ |-> EmptyMap, mainList |-> <<>>, ghostList |-> <<>>]

GhostNodeOf(k) == [key |-> k, inMap |-> TRUE]

\* the keys of ghostCache_
GhostKeys(p) ==
    {p.ghostList[i].key : i \in {j \in 1..Len(p.ghostList) : p.ghostList[j].inMap}}

GhostSize(p) == Cardinality(GhostKeys(p))

\* ghostCache_.erase(key)
GhostErase(p, k) ==
    [p EXCEPT !.ghostList = [i \in 1..Len(@) |->
        IF @[i].key = k THEN [@[i] EXCEPT !.inMap = FALSE] ELSE @[i]]]

\* removeFromGhost(ghostCache_[key]); ghostCache_.erase(key)
GhostTake(p, k) ==
    [p EXCEPT !.ghostList = SelectSeq(@, LAMBDA n : ~(n.key = k /\ n.inMap))]

PartSize(p) == Cardinality(DOMAIN p.mainCache_)

ALruMoveToFront(p, k) == [p EXCEPT !.mainList = <<k>> \o RemoveKey(@, k)]

ALruAddToFront(p, k) == [p EXCEPT !.mainList = <<k>> \o @]

ALruRemoveOldestGhost(p) ==
    IF p.ghostList = <<>> THEN p
    ELSE GhostErase([p EXCEPT !.ghostList = SubSeq(@, 1, Len(@) - 1)],
                    p.ghostList[Len(p.ghostList)].key)

\* ghostCache_[key] = node leaves an older ghost node of the key in the list
ALruAddToGhost(p, k) ==
    [GhostErase(p, k) EXCEPT !.ghostList = <<GhostNodeOf(k)>> \o @]

ALruEvictLeastRecent(p) ==
    IF p.mainList = <<>> THEN p
    ELSE LET k  == p.mainList[Len(p.mainList)]
             p1 == [p EXCEPT !.mainList = SubSeq(@, 1, Len(@) - 1)]
             p2 == IF GhostSize(p1) >= p1.ghostCapacity_
                   THEN ALruRemoveOldestGhost(p1) ELSE p1
             p3 == ALruAddToGhost(p2, k)
         IN  [p3 EXCEPT !.mainCache_ = MapErase(@, k)]

ALruUpdateExistingNode(p, k, v) ==
    ALruMoveToFront([p EXCEPT !.mainCache_[k].value = v], k)

ALruAddNewNode(p, k, v) ==
    LET p1 == IF PartSize(p) >= p.capacity_ THEN ALruEvictLeastRecent(p) ELSE p
        p2 == [p1 EXCEPT !.mainCache_ = MapPut(@, k, [value |-> v, accessCount |-> 1])]
    IN  ALruAddToFront(p2, k)

ALruUpdateNodeAccess(p, k) ==
    [ALruMoveToFront(p, k) EXCEPT !.mainCache_[k].accessCount = @ + 1]

ALruPut(p, k, v) ==
    IF p.capacity_ = 0 THEN [part |-> p, ret |-> FALSE]
    ELSE IF k \in DOMAIN p.mainCache_
    THEN [part |-> ALruUpdateExistingNode(p, k, v), ret |-> TRUE]
    ELSE [part |-> ALruAddNewNode(p, k, v), ret |-> TRUE]

ALruGet(p, k) ==
    IF k \in DOMAIN p.mainCache_
    THEN LET p1 == ALruUpdateNodeAccess(p, k)
         IN  [part |-> p1, hit |-> TRUE, out |-> p1.mainCache_[k].value,
              shouldTransform |-> p1.mainCache_[k].accessCount >= p1.transformThreshold_]
    ELSE [part |-> p, hit |-> FALSE, out |-> NoValue, shouldTransform |-> FALSE]

ALruCheckGhost(p, k) ==
    IF k \in GhostKeys(p)
    THEN [part |-> GhostTake(p, k), ret |-> TRUE]
    ELSE [part |-> p, ret |-> FALSE]

ALruIncreaseCapacity(p) == [p EXCEPT !.capacity_ = @ + 1]

ALruDecreaseCapacity(p) ==
    IF p.capacity_ <= 0 THEN [part |-> p, ret |-> FALSE]
    ELSE LET p1 == IF PartSize(p) = p.capacity_ THEN ALruEvictLeastRecent(p) ELSE p
         IN  [part |-> [p1 EXCEPT !.capacity_ = @ - 1], ret |-> TRUE]

\* ------------------------------------------------------------ ArcLfuPart
\* freqMap_  : frequency -> the keys of its list, front first (an entry may
\*             hold an empty list);  ghostList : ghostHead_ side (oldest) first
ArcLfuPartNew(capacity, transformThreshold) ==
    [capacity_ |-> capacity, ghostCapacity_ |-> capacity,
     transformThreshold_ |-> transformThreshold, minFreq_ |-> 0,
     mainCache_ |-> EmptyMap, freqMap_ |-> EmptyMap, ghostList |-> <<>>]

\* freqMap_[f] : operator[] makes the entry when it is missing
FreqEntry(p, f) ==
    IF f \in DOMAIN p.freqMap_ THEN p ELSE [p EXCEPT !.freqMap_ = MapPut(@, f, <<>>)]

ALfuUpdateNodeFrequency(p, k) ==
    LET oldFreq == p.mainCache_[k].accessCount
        newFreq == oldFreq + 1
        p1 == [FreqEntry(p, oldFreq) EXCEPT !.mainCache_[k].accessCount = newFreq]
        p2 == [p1 EXCEPT !.freqMap_[oldFreq] = RemoveKey(@, k)]
        p3 == IF p2.freqMap_[oldFreq] = <<>>
              THEN [p2 EXCEPT !.freqMap_ = MapErase(@, oldFreq),
                              !.minFreq_ = IF oldFreq = @ THEN newFreq ELSE @]
              ELSE p2
        p4 == FreqEntry(p3, newFreq)
    IN  [p4 EXCEPT !.freqMap_[newFreq] = Append(@, k)]

ALfuRemoveOldestGhost(p) ==
    IF p.ghostList = <<>> THEN p
    ELSE GhostErase([p EXCEPT !.ghostList = Tail(@)], p.ghostList[1].key)

ALfuAddToGhost(p, k) ==
    [GhostErase(p, k) EXCEPT !.ghostList = Append(@, GhostNodeOf(k))]

ALfuEvictLeastFrequent(p) ==
    IF DOMAIN p.freqMap_ = {} THEN p
    ELSE LET p0 == FreqEntry(p, p.minFreq_)
         IN  IF p0.freqMap_[p0.minFreq_] = <<>> THEN p0
             ELSE LET k  == Head(p0.freqMap_[p0.minFreq_])
                      p1 == [p0 EXCEPT !.freqMap_[p0.minFreq_] = Tail(@)]
                      p2 == IF p1.freqMap_[p1.minFreq_] = <<>>
                            THEN LET m == MapErase(p1.freqMap_, p1.minFreq_)
                                 IN  [p1 EXCEPT !.freqMap_ = m,
                                                !.minFreq_ = IF DOMAIN m # {}
                                                             THEN Min(DOMAIN m) ELSE @]
                            ELSE p1
                      p3 == IF GhostSize(p2) >= p2.ghostCapacity_
                            THEN ALfuRemoveOldestGhost(p2) ELSE p2
                      p4 == ALfuAddToGhost(p3, k)
                  IN  [p4 EXCEPT !.mainCache_ = MapErase(@, k)]

ALfuUpdateExistingNode(p, k, v) ==
    ALfuUpdateNodeFrequency([p EXCEPT !.mainCache_[k].value = v], k)

ALfuAddNewNode(p, k, v) ==
    LET p1 == IF PartSize(p) >= p.capacity_ THEN ALfuEvictLeastFrequent(p) ELSE p
        p2 == [p1 EXCEPT !.mainCache_ = MapPut(@, k, [value |-> v, accessCount |-> 1])]
        p3 == FreqEntry(p2, 1)
    IN  [p3 EXCEPT !.freqMap_[1] = Append(@, k), !.minFreq_ = 1]

ALfuPut(p, k, v) ==
    IF p.capacity_ = 0 THEN [part |-> p, ret |-> FALSE]
    ELSE IF k \in DOMAIN p.mainCache_
    THEN [part |-> ALfuUpdateExistingNode(p, k, v), ret |-> TRUE]
    ELSE [part |-> ALfuAddNewNode(p, k, v), ret |-> TRUE]

ALfuGet(p, k) ==
    IF k \in DOMAIN p.mainCache_
    THEN [part |-> ALfuUpdateNodeFrequency(p, k), hit |-> TRUE,
          out |-> p.mainCache_[k].value]
    ELSE [part |-> p, hit |-> FALSE, out |-> NoValue]

ALfuCheckGhost(p, k) ==
    IF k \in GhostKeys(p)
    THEN [part |-> GhostTake(p, k), ret |-> TRUE]
    ELSE [part |-> p, ret |-> FALSE]

ALfuIncreaseCapacity(p) == [p EXCEPT !.capacity_ = @ + 1]

\* decreaseCapacity without the test of capacity_
ALfuDecreaseAlways(p) == [part |-> [p EXCEPT !.capacity_ = @ - 1], ret |-> TRUE]

ALfuDecreaseCapacity(p) ==
    IF p.capacity_ <= 0 THEN [part |-> p, ret |-> FALSE]
    ELSE LET p1 == IF PartSize(p) = p.capacity_ THEN ALfuEvictLeastFrequent(p) ELSE p
         IN  [part |-> [p1 EXCEPT !.capacity_ = @ - 1], ret |-> TRUE]

\* -------------------------------------------------------------- ArcCache
ArcNew(capacity, transformThreshold) ==
    [capacity_ |-> capacity, transformThreshold_ |-> transformThreshold,
     lruPart_ |-> ArcLruPartNew(capacity, transformThreshold),
     lfuPart_ |-> ArcLfuPartNew(capacity, transformThreshold)]

\* a hit in the recency half's ghost list: the frequency half gives up one
\* unit of capacity, and the recency half gains it when that succeeded
ArcGhostHitLru(a, lruPart, d) ==
    [cache |-> [a EXCEPT !.lfuPart_ = d.part,
                         !.lruPart_ = IF d.ret THEN ALruIncreaseCapacity(lruPart)
                                      ELSE lruPart],
     inGhost |-> TRUE]

\* a hit in the frequency half's ghost list: the other way round
ArcGhostHitLfu(a, lfuPart, d) ==
    [cache |-> [a EXCEPT !.lruPart_ = d.part,
                         !.lfuPart_ = IF d.ret THEN ALfuIncreaseCapacity(lfuPart)
                                      ELSE lfuPart],
     inGhost |-> TRUE]

ArcCheckGhostCaches(a, k) ==
    IF ALruCheckGhost(a.lruPart_, k).ret
    THEN ArcGhostHitLru(a, ALruCheckGhost(a.lruPart_, k).part,
                        ALfuDecreaseCapacity(a.lfuPart_))
    ELSE IF ALfuCheckGhost(a.lfuPart_, k).ret
    THEN ArcGhostHitLfu(a, ALfuCheckGhost(a.lfuPart_, k).part,
                        ALruDecreaseCapacity(a.lruPart_))
    ELSE [cache |-> a, inGhost |-> FALSE]

\* put after checkGhostCaches: r1 is what lruPart_->put returned
ArcPutStored(a, inGhost, r1, k, v) ==
    IF ~inGhost /\ r1.ret
    THEN [a EXCEPT !.lruPart_ = r1.part, !.lfuPart_ = ALfuPut(@, k, v).part]
    ELSE [a EXCEPT !.lruPart_ = r1.part]

ArcPutChecked(g, k, v) ==
    ArcPutStored(g.cache, g.inGhost, ALruPut(g.cache.lruPart_, k, v), k, v)

ArcPut(a, k, v) == ArcPutChecked(ArcCheckGhostCaches(a, k), k, v)

\* get when lruPart_->get missed: r2 is what lfuPart_->get returned
ArcGetLfu(a, r2) ==
    [cache |-> [a EXCEPT !.lfuPart_ = r2.part], hit |-> r2.hit, out |-> r2.out]

\* get that returns the hit of the recency half and leaves the frequency
\* half alone whatever the hit count
ArcGetNoPromotion(a, r1, k) ==
    IF r1.hit
    THEN [cache |-> [a EXCEPT !.lruPart_ = r1.part], hit |-> TRUE, out |-> r1.out]
    ELSE ArcGetLfu(a, ALfuGet(a.lfuPart_, k))

\* get after checkGhostCaches: r1 is what lruPart_->get returned
ArcGetFound(a, r1, k) ==
    IF r1.hit
    THEN [cache |-> IF r1.shouldTransform
                    THEN [a EXCEPT !.lruPart_ = r1.part,
                                   !.lfuPart_ = ALfuPut(@, k, r1.out).part]
                    ELSE [a EXCEPT !.lruPart_ = r1.part],
          hit |-> TRUE, out |-> r1.out]
    ELSE ArcGetLfu(a, ALfuGet(a.lfuPart_, k))

ArcGetChecked(a, k) == ArcGetFound(a, ALruGet(a.lruPart_, k), k)

ArcGet(a, k) == ArcGetChecked(ArcCheckGhostCaches(a, k).cache, k)

T1(a) == DOMAIN a.lruPart_.mainCache_
T2(a) == DOMAIN a.lfuPart_.mainCache_
B1(a) == GhostKeys(a.lruPart_)
B2(a) == GhostKeys(a.lfuPart_)

ArcResident(a) == T1(a) \cup T2(a)

TransformThresholds == {2}

\* the keys that are put with every value; the other keys are put with value 1
Rewritten == {0}

\* the counters of key k and the lengths of the ghost lists are below the
\* bounds of the model
ArcCounted(a, k) ==
    /\ k \in T1(a) => a.lruPart_.mainCache_[k].accessCount < MaxCount
    /\ k \in T2(a) => a.lfuPart_.mainCache_[k].accessCount < MaxFreq
    /\ Len(a.lruPart_.ghostList) < MaxGhost
    /\ Len(a.lfuPart_.ghostList) < MaxGhost

\* written : key -> the value of the latest put of that key to the ArcCache
ArcInit ==
    /\ arc \in {ArcNew(c, t) : c \in 0..MaxCap, t \in TransformThresholds}
    /\ written = EmptyMap

ArcPutOf(K) ==
    \E k \in K, v \in Values :
        /\ k \notin Rewritten => v = 1
        /\ ArcCounted(arc, k)
        /\ arc' = ArcPut(arc, k, v)
        /\ written' = MapPut(written, k, v)
        /\ last' = Call("put", k, v, FALSE, NoValue, ArcResident(arc) \ ArcResident(arc'))
        /\ UNCHANGED <<lru, lruUse, lfu, ext>>

ArcDoPut == ArcPutOf(Keys)

ArcDoPutWide == ArcPutOf(WideKeys)

ArcDoGet ==
    \E k \in Keys : \E r \in {ArcGet(arc, k)} :
        /\ ArcCounted(arc, k)
        /\ arc' = r.cache
        /\ written' = written
        /\ last' = Call("get", k, NoValue, r.hit, r.out,
                        ArcResident(arc) \ ArcResident(arc'))
        /\ UNCHANGED <<lru, lruUse, lfu, ext>>

ArcIdle == arc = ArcNew(0, 2) /\ written = EmptyMap

\* ------------------------------------------------------- scenario S5 (ARC)
\* put(k, v); get(k); get(k); as many puts of other keys as the capacity;
\* get(k).  s5.k is the key k and s5.step the call that comes next (0: the
\* scenario is not run)
S5Capacities == {4}

S5Keys == 0..(MaxKey + 2)

NoScenario == [k |-> NoKey, step |-> 0]

S5Idle == s5 = NoScenario

S5Init ==
    /\ arc \in {ArcNew(c, t) : c \in S5Capacities, t \in TransformThresholds}
    /\ written = EmptyMap
    /\ s5 \in {[k |-> k, step |-> 1] : k \in S5Keys}

\* the step after the last call of the scenario
S5Done(a) == a.capacity_ + 5

S5PutKey ==
    \E v \in Values :
        /\ s5.step = 1
        /\ arc' = ArcPut(arc, s5.k, v)
        /\ written' = MapPut(written, s5.k, v)
        /\ last' = Call("put", s5.k, v, FALSE, NoValue, ArcResident(arc) \ ArcResident(arc'))
        /\ s5' = [s5 EXCEPT !.step = @ + 1]
        /\ UNCHANGED <<lru, lruUse, lfu, lrukVars, threadVars, shardVars>>

S5GetOf(steps) ==
    \E r \in {ArcGet(arc, s5.k)} :
        /\ s5.step \in steps
        /\ arc' = r.cache
        /\ written' = written
        /\ last' = Call("get", s5.k, NoValue, r.hit, r.out,
                        ArcResident(arc) \ ArcResident(arc'))
        /\ s5' = [s5 EXCEPT !.step = @ + 1]
        /\ UNCHANGED <<lru, lruUse, lfu, lrukVars, threadVars, shardVars>>

S5GetKey == S5GetOf({2, 3})

S5PutOther ==
    \E k \in S5Keys \ {s5.k} :
        /\ s5.step \in 4..(S5Done(arc) - 2)
        /\ arc' = ArcPut(arc, k, 1)
        /\ written' = MapPut(written, k, 1)
        /\ last' = Call("put", k, 1, FALSE, NoValue, ArcResident(arc) \ ArcResident(arc'))
        /\ s5' = [s5 EXCEPT !.step = @ + 1]
        /\ UNCHANGED <<lru, lruUse, lfu, lrukVars, threadVars, shardVars>>

S5GetAgain == S5GetOf({S5Done(arc) - 1})


\* =============================================================== threads
\* thr[t]  : the call that thread t is making: pc "idle" (no call), "call"
\*           (called, and not yet inside a method that reads or writes the
\*           cache) or the method it is in; at is the structure whose members
\*           the thread is reading or writing, "none" outside the methods
\* mutex   : structure -> the thread that holds its mutex_, or NoThread
\* serial  : the caches as the same calls leave them when each call runs
\*           alone, in the order in which the calls lock the mutex
MaxThreads == 2

Threads == 1..MaxThreads

NoThread == 0

\* the keys the threads use
ThreadKeys == 0..(MaxKey - 1)

IdleThread ==
    [pc |-> "idle", op |-> "none", key |-> NoKey, value |-> NoValue, at |-> "none",
     found |-> FALSE, order |-> <<>>, hit |-> FALSE, out |-> NoValue,
     inGhost |-> FALSE, call |-> 0]

FreeMutexes == [lru |-> NoThread, lfu |-> NoThread, lruPart |-> NoThread, lfuPart |-> NoThread]

NoSerial == [lru |-> LruNew(0), lfu |-> LfuNew(0, 1)]

ThreadsInit ==
    /\ thr = [t \in Threads |-> IdleThread]
    /\ mutex = FreeMutexes
    /\ calls = <<>>

ThreadsIdle == ThreadsInit /\ serial = NoSerial

\* a thread calls op(k) or op(k, v)
ThreadBegin(ops) ==
    \E t \in Threads, op \in ops, k \in ThreadKeys, v \in Values :
        /\ thr[t].pc = "idle"
        /\ op # "put" => v = 1
        /\ thr' = [thr EXCEPT ![t] = [IdleThread EXCEPT !.pc = "call", !.op = op, !.key = k,
                                         !.value = IF op = "put" THEN v ELSE NoValue]]
        /\ UNCHANGED <<lru, lruUse, lfu, arc, written, last, mutex, serial, calls,
                       s5Vars, lrukVars, shardVars>>

\* ------------------------------------------------------ threads, LruCache
\* a call of LruCache run alone
LruCallOf(c, op, k, v) ==
    CASE op = "put" -> [cache |-> LruPut(c, k, v), hit |-> FALSE, out |-> NoValue]
      [] op = "get" -> LruGet(c, k)
      [] op = "remove" -> [cache |-> LruRemove(c, k), hit |-> FALSE, out |-> NoValue]
      [] OTHER -> [cache |-> c, hit |-> FALSE, out |-> NoValue]

\* what a call does after nodeMap_.find(key), whose outcome is found
LruLocked(c, op, k, v, found) ==
    CASE op = "put" ->
            [cache |-> IF found THEN LruUpdateExistingNode(c, k, v)
                       ELSE LruAddNewNode(c, k, v),
             hit |-> FALSE, out |-> NoValue]
      [] op = "get" ->
            IF found
            THEN [cache |-> LruMoveToMostRecent(c, LruFind(c, k)), hit |-> TRUE,
                  out |-> c.list[LruFind(c, k)].value]
            ELSE [cache |-> c, hit |-> FALSE, out |-> NoValue]
      [] op = "remove" ->
            [cache |-> IF found THEN LruRemoveNode(c, LruFind(c, k)) ELSE c,
             hit |-> FALSE, out |-> NoValue]
      [] OTHER -> [cache |-> c, hit |-> FALSE, out |-> NoValue]

LruBegin == ThreadBegin({"put", "get", "remove"})

\* put returns before it locks when capacity_ <= 0
LruReturnNoCapacity ==
    \E t \in Threads :
        /\ thr[t].pc = "call" /\ thr[t].op = "put"
        /\ lru.capacity_ <= 0
        /\ thr' = [thr EXCEPT ![t] = IdleThread]
        /\ last' = Call("put", thr[t].key, thr[t].value, FALSE, NoValue, {})
        /\ UNCHANGED <<lru, lruUse, lfu, arc, written, mutex, serial, calls,
                       s5Vars, lrukVars, shardVars>>

\* std::lock_guard lock(mutex_); nodeMap_.find(key)
LruLock ==
    \E t \in Threads :
        /\ thr[t].pc = "call"
        /\ thr[t].op \in {"put", "get", "remove"}
        /\ thr[t].op = "put" => (lru.capacity_ > 0 /\ Len(lru.list) < MaxNodes)
        /\ mutex.lru = NoThread
        /\ \E r \in {LruCallOf(serial.lru, thr[t].op, thr[t].key, thr[t].value)} :
              /\ mutex' = [mutex EXCEPT !.lru = t]
              /\ thr' = [thr EXCEPT ![t].pc = "locked", ![t].at = "lru",
                                    ![t].found = thr[t].key \in LruKeys(lru),
                                    ![t].hit = r.hit, ![t].out = r.out]
              /\ serial' = [serial EXCEPT !.lru = r.cache]
              /\ UNCHANGED <<lru, lruUse, lfu, arc, written, last, calls,
                             s5Vars, lrukVars, shardVars>>

\* the rest of the call, the mutex still held after the return
LruBodyKeepsMutex ==
    \E t \in Threads :
        /\ thr[t].pc = "locked" /\ thr[t].at = "lru"
        /\ \E r \in {LruLocked(lru, thr[t].op, thr[t].key, thr[t].value, thr[t].found)} :
              /\ lru' = r.cache
              /\ last' = Call(thr[t].op, thr[t].key, thr[t].value, r.hit, r.out,
                              LruKeys(lru) \ LruKeys(lru'))
              /\ thr' = [thr EXCEPT ![t] = IdleThread]
              /\ UNCHANGED <<lruUse, lfu, arc, written, mutex, serial, calls,
                             s5Vars, lrukVars, shardVars>>

\* the rest of the call, and the end of the lock_guard
LruBody ==
    \E t \in Threads :
        /\ thr[t].pc = "locked" /\ thr[t].at = "lru"
        /\ \E r \in {LruLocked(lru, thr[t].op, thr[t].key, thr[t].value, thr[t].found)} :
              /\ lru' = r.cache
              /\ last' = Call(thr[t].op, thr[t].key, thr[t].value, r.hit, r.out,
                              LruKeys(lru) \ LruKeys(lru'))
              /\ mutex' = [mutex EXCEPT !.lru = NoThread]
              /\ thr' = [thr EXCEPT ![t] = IdleThread]
              /\ UNCHANGED <<lruUse, lfu, arc, written, serial, calls,
                             s5Vars, lrukVars, shardVars>>

\* ------------------------------------------------------ threads, LfuCache
\* a call of LfuCache run alone
LfuCallOf(c, op, k, v, order) ==
    CASE op = "put" -> [cache |-> LfuPut(c, k, v, order), hit |-> FALSE, out |-> NoValue]
      [] op = "get" -> LfuGet(c, k)
      [] OTHER -> [cache |-> c, hit |-> FALSE, out |-> NoValue]

\* what a call does after nodeMap_.find(key), whose outcome is found
LfuLocked(c, op, k, v, found, order) ==
    CASE op = "put" ->
            [cache |-> IF found THEN LfuGetInternal([c EXCEPT !.nodeMap_[k].value = v], k)
                       ELSE LfuPutInternal(c, k, v, order),
             hit |-> FALSE, out |-> NoValue]
      [] op = "get" ->
            IF found
            THEN [cache |-> LfuGetInternal(c, k), hit |-> TRUE, out |-> c.nodeMap_[k].value]
            ELSE [cache |-> c, hit |-> FALSE, out |-> NoValue]
      [] OTHER -> [cache |-> c, hit |-> FALSE, out |-> NoValue]

LfuBegin == ThreadBegin({"put", "get"})

\* put returns before it locks when capacity_ == 0
LfuReturnNoCapacity ==
    \E t \in Threads :
        /\ thr[t].pc = "call" /\ thr[t].op = "put"
        /\ lfu.capacity_ = 0
        /\ thr' = [thr EXCEPT ![t] = IdleThread]
        /\ last' = Call("put", thr[t].key, thr[t].value, FALSE, NoValue, {})
        /\ UNCHANGED <<lru, lruUse, lfu, arc, written, mutex, serial, calls,
                       s5Vars, lrukVars, shardVars>>

\* std::lock_guard lock(mutex_); nodeMap_.find(key)
LfuLock ==
    \E t \in Threads :
        /\ thr[t].pc = "call"
        /\ thr[t].op \in {"put", "get"}
        /\ thr[t].op = "put" =>
              (lfu.capacity_ # 0 /\ lfu.curTotalNum_ < MaxTotal /\ lfu.curTotalNum_ > 0 - MaxTotal)
        /\ thr[t].key \in LfuKeys(lfu) => lfu.nodeMap_[thr[t].key].freq < MaxFreq
        /\ mutex.lfu = NoThread
        /\ \E order \in Orders(LfuKeys(lfu) \cup LfuKeys(serial.lfu) \cup {thr[t].key}) :
           \E r \in {LfuCallOf(serial.lfu, thr[t].op, thr[t].key, thr[t].value, order)} :
              /\ mutex' = [mutex EXCEPT !.lfu = t]
              /\ thr' = [thr EXCEPT ![t].pc = "locked", ![t].at = "lfu",
                                    ![t].found = thr[t].key \in LfuKeys(lfu),
                                    ![t].order = order,
                                    ![t].hit = r.hit, ![t].out = r.out]
              /\ serial' = [serial EXCEPT !.lfu = r.cache]
              /\ UNCHANGED <<lru, lruUse, lfu, arc, written, last, calls,
                             s5Vars, lrukVars, shardVars>>

\* the rest of the call, and the end of the lock_guard
\* purge() of another thread may have cleared nodeMap_ since find(key): the
\* iterator found then dangles, and what the call does is undefined.  The
\* outcomes kept are that it acts as on a key not found and that it leaves
\* the cache alone, returning what it had found
LfuOutcomes(c, th) ==
    IF th.found /\ th.key \notin LfuKeys(c)
    THEN {LfuLocked(c, th.op, th.key, th.value, FALSE, th.order),
          [cache |-> c, hit |-> th.op = "get", out |-> th.out]}
    ELSE {LfuLocked(c, th.op, th.key, th.value, th.found, th.order)}

LfuBody ==
    \E t \in Threads :
        /\ thr[t].pc = "locked" /\ thr[t].at = "lfu"
        /\ \E r \in LfuOutcomes(lfu, thr[t]) :
              /\ lfu' = r.cache
              /\ last' = Call(thr[t].op, thr[t].key, thr[t].value, r.hit, r.out,
                              LfuKeys(lfu) \ LfuKeys(lfu'))
              /\ mutex' = [mutex EXCEPT !.lfu = NoThread]
              /\ thr' = [thr EXCEPT ![t] = IdleThread]
              /\ UNCHANGED <<lru, lruUse, arc, written, serial, calls,
                             s5Vars, lrukVars, shardVars>>

\* the most calls recorded in calls
MaxCalls == 3

CallOf(op, k, v) == [op |-> op, key |-> k, value |-> v, hit |-> FALSE, out |-> NoValue]

\* a thread calls put, get or purge of the LfuCache; the call is recorded.
\* purge() takes no lock: the thread is then inside LfuCache without the mutex
LfuCall ==
    \E t \in Threads, op \in {"put", "get", "purge"}, k \in ThreadKeys, v \in Values :
        /\ thr[t].pc = "idle"
        /\ Len(calls) < MaxCalls
        /\ op # "put" => v = 1
        /\ op = "purge" => k = 0
        /\ thr' = [thr EXCEPT ![t] = [IdleThread EXCEPT !.pc = "call", !.op = op,
                                         !.key = IF op = "purge" THEN NoKey ELSE k,
                                         !.value = IF op = "put" THEN v ELSE NoValue,
                                         !.call = Len(calls) + 1]]
        /\ calls' = Append(calls, CallOf(op, thr'[t].key, thr'[t].value))
        /\ UNCHANGED <<lru, lruUse, lfu, arc, written, last, mutex, serial,
                       s5Vars, lrukVars, shardVars>>

LfuPurgeEnter ==
    \E t \in Threads :
        /\ thr[t].pc = "call" /\ thr[t].op = "purge"
        /\ thr' = [thr EXCEPT ![t].pc = "purge", ![t].at = "lfu"]
        /\ UNCHANGED <<lru, lruUse, lfu, arc, written, last, mutex, serial, calls,
                       s5Vars, lrukVars, shardVars>>

LfuPurge(c) == [c EXCEPT !.nodeMap_ = EmptyMap, !.freqToFreqList_ = EmptyMap]

\* purge() of the LfuCache, called by its one user
LfuDoPurge ==
    /\ lfu' = LfuPurge(lfu)
    /\ last' = Call("purge", NoKey, NoValue, FALSE, NoValue, LfuKeys(lfu))
    /\ UNCHANGED <<lru, lruUse, arc, written, ext>>

LfuPurgeBody ==
    \E t \in Threads :
        /\ thr[t].pc = "purge"
        /\ lfu' = LfuPurge(lfu)
        /\ serial' = [serial EXCEPT !.lfu = LfuPurge(@)]
        /\ last' = Call("purge", NoKey, NoValue, FALSE, NoValue, LfuKeys(lfu))
        /\ thr' = [thr EXCEPT ![t] = IdleThread]
        /\ UNCHANGED <<lru, lruUse, arc, written, mutex, calls,
                       s5Vars, lrukVars, shardVars>>

\* ------------------------------------------------------ threads, ArcCache
\* ArcCache has no mutex of its own: a call is a sequence of calls of methods
\* of the two parts, and thr[t].pc is the method that comes next or that the
\* thread is in (thr[t].at says which).  put and get of a part lock the
\* part's mutex_; checkGhost, increaseCapacity and decreaseCapacity do not.
\* calls : the calls made, in the order in which they started, with what
\*         they returned
ArcMethods ==
    {"checkLru", "decLfu", "incLru", "checkLfu", "decLru", "incLfu",
     "putLru", "putLfu", "getLru", "getLfu"}

ArcPartOf(pc) ==
    IF pc \in {"checkLru", "incLru", "decLru", "putLru", "getLru"}
    THEN "lruPart" ELSE "lfuPart"

\* put of a part tests capacity_ before it locks
ArcPutEnabled(a, pc) ==
    IF pc = "putLru" THEN a.lruPart_.capacity_ # 0 ELSE a.lfuPart_.capacity_ # 0

ArcLocks(a, pc) ==
    \/ pc \in {"getLru", "getLfu"}
    \/ pc \in {"putLru", "putLfu"} /\ ArcPutEnabled(a, pc)

\* put of a part under the lock
ALruPutLocked(p, k, v) ==
    IF k \in DOMAIN p.mainCache_
    THEN [part |-> ALruUpdateExistingNode(p, k, v), ret |-> TRUE]
    ELSE [part |-> ALruAddNewNode(p, k, v), ret |-> TRUE]

ALfuPutLocked(p, k, v) ==
    IF k \in DOMAIN p.mainCache_
    THEN [part |-> ALfuUpdateExistingNode(p, k, v), ret |-> TRUE]
    ELSE [part |-> ALfuAddNewNode(p, k, v), ret |-> TRUE]

\* the thread after checkGhostCaches has returned inGhost
ArcChecked(th, inGhost) ==
    [th EXCEPT !.inGhost = inGhost, !.pc = IF th.op = "put" THEN "putLru" ELSE "getLru"]

ArcGoto(th, pc) == [th EXCEPT !.pc = pc]

\* the end of a method of the recency half: r is what the method returned
ArcAfterLru(a, th, r) ==
    [cache |-> [a EXCEPT !.lruPart_ = r.part],
     thread |->
        CASE th.pc = "checkLru" -> ArcGoto(th, IF r.ret THEN "decLfu" ELSE "checkLfu")
          [] th.pc = "decLru" -> IF r.ret THEN ArcGoto(th, "incLfu") ELSE ArcChecked(th, TRUE)
          [] th.pc = "incLru" -> ArcChecked(th, TRUE)
          [] th.pc = "putLru" ->
                ArcGoto(th, IF ~th.inGhost /\ r.ret THEN "putLfu" ELSE "return")
          [] th.pc = "getLru" ->
                IF r.hit
                THEN [th EXCEPT !.hit = TRUE, !.out = r.out, !.value = r.out,
                                !.pc = IF r.shouldTransform THEN "putLfu" ELSE "return"]
                ELSE ArcGoto(th, "getLfu")
          [] OTHER -> th]

\* the end of a method of the frequency half
ArcAfterLfu(a, th, r) ==
    [cache |-> [a EXCEPT !.lfuPart_ = r.part],
     thread |->
        CASE th.pc = "checkLfu" -> IF r.ret THEN ArcGoto(th, "decLru") ELSE ArcChecked(th, FALSE)
          [] th.pc = "decLfu" -> IF r.ret THEN ArcGoto(th, "incLru") ELSE ArcChecked(th, TRUE)
          [] th.pc = "incLfu" -> ArcChecked(th, TRUE)
          [] th.pc = "putLfu" -> ArcGoto(th, "return")
          [] th.pc = "getLfu" -> [th EXCEPT !.hit = r.hit, !.out = r.out, !.pc = "return"]
          [] OTHER -> th]

NoReturn(p) == [part |-> p, ret |-> FALSE]

\* the method that thread th is in, run on the cache a
ArcMethod(a, th) ==
    CASE th.pc = "checkLru" -> ArcAfterLru(a, th, ALruCheckGhost(a.lruPart_, th.key))
      [] th.pc = "decLru" -> ArcAfterLru(a, th, ALruDecreaseCapacity(a.lruPart_))
      [] th.pc = "incLru" ->
            ArcAfterLru(a, th, [part |-> ALruIncreaseCapacity(a.lruPart_), ret |-> TRUE])
      [] th.pc = "putLru" ->
            ArcAfterLru(a, th, IF th.found THEN ALruPutLocked(a.lruPart_, th.key, th.value)
                               ELSE NoReturn(a.lruPart_))
      [] th.pc = "getLru" -> ArcAfterLru(a, th, ALruGet(a.lruPart_, th.key))
      [] th.pc = "checkLfu" -> ArcAfterLfu(a, th, ALfuCheckGhost(a.lfuPart_, th.key))
      [] th.pc = "decLfu" -> ArcAfterLfu(a, th, ALfuDecreaseCapacity(a.lfuPart_))
      [] th.pc = "incLfu" ->
            ArcAfterLfu(a, th, [part |-> ALfuIncreaseCapacity(a.lfuPart_), ret |-> TRUE])
      [] th.pc = "putLfu" ->
            ArcAfterLfu(a, th, IF th.found THEN ALfuPutLocked(a.lfuPart_, th.key, th.value)
                               ELSE NoReturn(a.lfuPart_))
      [] th.pc = "getLfu" -> ArcAfterLfu(a, th, ALfuGet(a.lfuPart_, th.key))
      [] OTHER -> [cache |-> a, thread |-> th]

\* a thread calls put or get of the ArcCache, which starts checkGhostCaches
ArcBegin ==
    \E t \in Threads, op \in {"put", "get"}, k \in ThreadKeys, v \in Values :
        /\ thr[t].pc = "idle"
        /\ Len(calls) < MaxCalls
        /\ op # "put" => v = 1
        /\ thr' = [thr EXCEPT ![t] = [IdleThread EXCEPT !.pc = "checkLru", !.op = op, !.key = k,
                                         !.value = IF op = "put" THEN v ELSE NoValue,
                                         !.call = Len(calls) + 1]]
        /\ calls' = Append(calls, CallOf(op, k, IF op = "put" THEN v ELSE NoValue))
        /\ UNCHANGED <<lru, lruUse, lfu, arc, written, last, mutex, serial,
                       s5Vars, lrukVars, shardVars>>

\* the thread enters the next method, locking the part when the method locks
ArcEnter ==
    \E t \in Threads :
        /\ thr[t].pc \in ArcMethods /\ thr[t].at = "none"
        /\ ArcLocks(arc, thr[t].pc) => mutex[ArcPartOf(thr[t].pc)] = NoThread
        /\ mutex' = IF ArcLocks(arc, thr[t].pc)
                    THEN [mutex EXCEPT ![ArcPartOf(thr[t].pc)] = t] ELSE mutex
        /\ thr' = [thr EXCEPT ![t].at = ArcPartOf(thr[t].pc),
                              ![t].found = thr[t].pc \in {"putLru", "putLfu"}
                                           /\ ArcPutEnabled(arc, thr[t].pc)]
        /\ UNCHANGED <<lru, lruUse, lfu, arc, written, last, serial, calls,
                       s5Vars, lrukVars, shardVars>>

\* the thread leaves the method; the call returns after its last method
ArcExit ==
    \E t \in Threads :
        /\ thr[t].pc \in ArcMethods /\ thr[t].at # "none"
        /\ \E r \in {ArcMethod(arc, thr[t])} :
              /\ arc' = r.cache
              /\ mutex' = IF mutex[thr[t].at] = t THEN [mutex EXCEPT ![thr[t].at] = NoThread]
                          ELSE mutex
              /\ IF r.thread.pc = "return"
                 THEN /\ thr' = [thr EXCEPT ![t] = IdleThread]
                      /\ calls' = [calls EXCEPT ![thr[t].call].hit = r.thread.hit,
                                                ![thr[t].call].out = r.thread.out]
                      /\ last' = Call(thr[t].op, thr[t].key, calls[thr[t].call].value,
                                      r.thread.hit, r.thread.out, {})
                      /\ written' = IF thr[t].op = "put"
                                    THEN MapPut(written, thr[t].key, thr[t].value) ELSE written
                 ELSE /\ thr' = [thr EXCEPT ![t] = [r.thread EXCEPT !.at = "none"]]
                      /\ UNCHANGED <<calls, last, written>>
              /\ UNCHANGED <<lru, lruUse, lfu, serial, s5Vars, lrukVars, shardVars>>

\* what the claims about an ArcCache compare: the four lists and the two
\* capacities
ArcView(a) ==
    [t1 |-> T1(a), t2 |-> T2(a), b1 |-> B1(a), b2 |-> B2(a),
     lruCapacity |-> a.lruPart_.capacity_, lfuCapacity |-> a.lfuPart_.capacity_]

\* the calls cs, run one at a time in the order given from the cache a,
\* return what was recorded and leave the lists and capacities of target
RECURSIVE ArcRunsTo(_, _, _, _)
ArcRunsTo(a, cs, order, target) ==
    IF order = <<>> THEN ArcView(a) = ArcView(target)
    ELSE IF cs[Head(order)].op = "put"
    THEN ArcRunsTo(ArcPut(a, cs[Head(order)].key, cs[Head(order)].value),
                   cs, Tail(order), target)
    ELSE /\ ArcGet(a, cs[Head(order)].key).hit = cs[Head(order)].hit
         /\ ArcGet(a, cs[Head(order)].key).out = cs[Head(order)].out
         /\ ArcRunsTo(ArcGet(a, cs[Head(order)].key).cache, cs, Tail(order), target)

\* ================================================================ shards
\* hashLru : a HashLruCaches, hashLfu : a HashLfuCache; <<>> when there is none
MaxShards == 2
MaxTotalCap == 3
MaxShardKey == 3
MaxShardNodes == 3
MaxShardCount == 2

ShardKeys == 0..MaxShardKey

HashIdle == hashLru = <<>> /\ hashLfu = <<>>

\* std::hash of an integer key is the key
Hash(k) == k

\* std::ceil(capacity / static_cast<double>(sliceNum_))
SliceSize(capacity, sliceNum) == (capacity + sliceNum - 1) \div sliceNum

HashLruNew(capacity, sliceNum) ==
    [capacity_ |-> capacity, sliceNum_ |-> sliceNum,
     lruSliceCaches_ |-> [i \in 1..sliceNum |-> LruNew(SliceSize(capacity, sliceNum))]]

HashLfuNew(capacity, sliceNum, maxAverageNum) ==
    [capacity_ |-> capacity, sliceNum_ |-> sliceNum,
     lfuSliceCaches_ |->
        [i \in 1..sliceNum |-> LfuNew(SliceSize(capacity, sliceNum), maxAverageNum)]]

\* every key goes to the first slice
SliceIndexFirst(h, k) == 1

\* sliceIndex = Hash(key) % sliceNum_, counted from 1 as the slices are here
SliceIndex(h, k) == (Hash(k) % h.sliceNum_) + 1

HashLruKeys(h) == UNION {LruKeys(h.lruSliceCaches_[i]) : i \in 1..h.sliceNum_}

HashLfuKeys(h) == UNION {LfuKeys(h.lfuSliceCaches_[i]) : i \in 1..h.sliceNum_}

HashLruPutAt(h, i, k, v) == [h EXCEPT !.lruSliceCaches_[i] = LruPut(@, k, v)]

HashLruPut(h, k, v) == HashLruPutAt(h, SliceIndex(h, k), k, v)

HashLruGetOf(h, i, r) ==
    [cache |-> [h EXCEPT !.lruSliceCaches_[i] = r.cache], hit |-> r.hit, out |-> r.out]

HashLruGet(h, k) ==
    HashLruGetOf(h, SliceIndex(h, k), LruGet(h.lruSliceCaches_[SliceIndex(h, k)], k))

HashLfuPutAt(h, i, k, v, order) == [h EXCEPT !.lfuSliceCaches_[i] = LfuPut(@, k, v, order)]

HashLfuPut(h, k, v, order) == HashLfuPutAt(h, SliceIndex(h, k), k, v, order)

HashLfuGetOf(h, i, r) ==
    [cache |-> [h EXCEPT !.lfuSliceCaches_[i] = r.cache], hit |-> r.hit, out |-> r.out]

\* HashLfuCache::get(key) calls get(key, value), which the class does not
\* define: it is taken to dispatch as put does
HashLfuGet(h, k) ==
    HashLfuGetOf(h, SliceIndex(h, k), LfuGet(h.lfuSliceCaches_[SliceIndex(h, k)], k))

HashLfuPurge(h) ==
    [h EXCEPT !.lfuSliceCaches_ = [i \in 1..h.sliceNum_ |-> LfuPurge(h.lfuSliceCaches_[i])]]

HashLruInit ==
    /\ hashLru \in {HashLruNew(c, n) : c \in 1..MaxTotalCap, n \in 2..MaxShards}
    /\ hashLfu = <<>>

HashLfuInit ==
    /\ hashLfu \in {HashLfuNew(c, n, m) : c \in 1..MaxTotalCap, n \in 2..MaxShards,
                                            m \in MaxAverageNums}
    /\ hashLru = <<>>

HashLruDoPut ==
    \E k \in ShardKeys, v \in Values :
        /\ Len(hashLru.lruSliceCaches_[SliceIndex(hashLru, k)].list) < MaxShardNodes
        /\ hashLru' = HashLruPut(hashLru, k, v)
        /\ last' = Call("put", k, v, FALSE, NoValue, HashLruKeys(hashLru) \ HashLruKeys(hashLru'))
        /\ UNCHANGED <<lru, lruUse, lfu, arc, written, hashLfu, s5Vars, lrukVars, threadVars>>

HashLruDoGet ==
    \E k \in ShardKeys : \E r \in {HashLruGet(hashLru, k)} :
        /\ hashLru' = r.cache
        /\ last' = Call("get", k, NoValue, r.hit, r.out, {})
        /\ UNCHANGED <<lru, lruUse, lfu, arc, written, hashLfu, s5Vars, lrukVars, threadVars>>

\* the slice that key k goes to is within the bounds of the counters
HashLfuBounded(c, k) ==
    /\ c.curTotalNum_ < MaxShardCount
    /\ c.curTotalNum_ > 0 - MaxShardCount
    /\ k \in LfuKeys(c) => c.nodeMap_[k].freq < MaxShardCount

HashLfuDoPut ==
    \E k \in ShardKeys, v \in Values :
      \E order \in Orders(LfuKeys(hashLfu.lfuSliceCaches_[SliceIndex(hashLfu, k)]) \cup {k}) :
        /\ HashLfuBounded(hashLfu.lfuSliceCaches_[SliceIndex(hashLfu, k)], k)
        /\ hashLfu' = HashLfuPut(hashLfu, k, v, order)
        /\ last' = Call("put", k, v, FALSE, NoValue, HashLfuKeys(hashLfu) \ HashLfuKeys(hashLfu'))
        /\ UNCHANGED <<lru, lruUse, lfu, arc, written, hashLru, s5Vars, lrukVars, threadVars>>

HashLfuDoGet ==
    \E k \in ShardKeys : \E r \in {HashLfuGet(hashLfu, k)} :
        /\ HashLfuBounded(hashLfu.lfuSliceCaches_[SliceIndex(hashLfu, k)], k)
        /\ hashLfu' = r.cache
        /\ last' = Call("get", k, NoValue, r.hit, r.out, {})
        /\ UNCHANGED <<lru, lruUse, lfu, arc, written, hashLru, s5Vars, lrukVars, threadVars>>

HashLfuDoPurge ==
    /\ hashLfu' = HashLfuPurge(hashLfu)
    /\ last' = Call("purge", NoKey, NoValue, FALSE, NoValue, HashLfuKeys(hashLfu))
    /\ UNCHANGED <<lru, lruUse, lfu, arc, written, hashLru, s5Vars, lrukVars, threadVars>>

\* ---------------------------------------------- threads, counted calls
\* a thread calls put, get or remove of the LruCache; the call is recorded
LruCall ==
    \E t \in Threads, op \in {"put", "get", "remove"}, k \in ThreadKeys, v \in Values :
        /\ thr[t].pc = "idle"
        /\ Len(calls) < MaxCalls
        /\ op # "put" => v = 1
        /\ thr' = [thr EXCEPT ![t] = [IdleThread EXCEPT !.pc = "call", !.op = op, !.key = k,
                                         !.value = IF op = "put" THEN v ELSE NoValue,
                                         !.call = Len(calls) + 1]]
        /\ calls' = Append(calls, CallOf(op, k, thr'[t].value))
        /\ UNCHANGED <<lru, lruUse, lfu, arc, written, last, mutex, serial,
                       s5Vars, lrukVars, shardVars>>

\* ---------------------------------------------- threads, sharded caches
\* HashLruCaches and HashLfuCache have no mutex of their own: put and get
\* compute sliceIndex and call put or get of that slice, which locks the
\* mutex_ of the slice.  mutex.slices[i] is the mutex_ of slice i
SliceMutexes(sliceNum) ==
    [lru |-> NoThread, lfu |-> NoThread, lruPart |-> NoThread, lfuPart |-> NoThread,
     slices |-> [i \in 1..sliceNum |-> NoThread]]

HashThreadsInit(sliceNum) ==
    /\ thr = [t \in Threads |-> IdleThread]
    /\ mutex = SliceMutexes(sliceNum)
    /\ calls = <<>>
    /\ serial = NoSerial

\* a thread calls put or get of the sharded cache; the call is recorded
HashCall ==
    \E t \in Threads, op \in {"put", "get"}, k \in ThreadKeys, v \in Values :
        /\ thr[t].pc = "idle"
        /\ Len(calls) < MaxCalls
        /\ op # "put" => v = 1
        /\ thr' = [thr EXCEPT ![t] = [IdleThread EXCEPT !.pc = "call", !.op = op, !.key = k,
                                         !.value = IF op = "put" THEN v ELSE NoValue,
                                         !.call = Len(calls) + 1]]
        /\ calls' = Append(calls, CallOf(op, k, thr'[t].value))
        /\ UNCHANGED <<lru, lruUse, lfu, arc, written, last, mutex, serial,
                       s5Vars, lrukVars, shardVars>>

\* the slice that the call of thread th goes to
HashLruSlice(h, th) == h.lruSliceCaches_[SliceIndex(h, th.key)]

HashLfuSlice(h, th) == h.lfuSliceCaches_[SliceIndex(h, th.key)]

\* put of the slice returns before it locks when the slice has no capacity
HashLruReturnNoCapacity ==
    \E t \in Threads :
        /\ thr[t].pc = "call" /\ thr[t].op = "put"
        /\ HashLruSlice(hashLru, thr[t]).capacity_ <= 0
        /\ thr' = [thr EXCEPT ![t] = IdleThread]
        /\ last' = Call("put", thr[t].key, thr[t].value, FALSE, NoValue, {})
        /\ UNCHANGED <<lru, lruUse, lfu, arc, written, mutex, serial, calls,
                       s5Vars, lrukVars, shardVars>>

\* std::lock_guard lock(mutex_) of the slice; nodeMap_.find(key)
HashLruLock ==
    \E t \in Threads :
        /\ thr[t].pc = "call"
        /\ thr[t].op = "put" => HashLruSlice(hashLru, thr[t]).capacity_ > 0
        /\ mutex.slices[SliceIndex(hashLru, thr[t].key)] = NoThread
        /\ mutex' = [mutex EXCEPT !.slices[SliceIndex(hashLru, thr[t].key)] = t]
        /\ thr' = [thr EXCEPT ![t].pc = "locked", ![t].at = "slice",
                              ![t].found = thr[t].key \in LruKeys(HashLruSlice(hashLru, thr[t]))]
        /\ UNCHANGED <<lru, lruUse, lfu, arc, written, last, serial, calls,
                       s5Vars, lrukVars, shardVars>>

\* the rest of the call of the slice, and the end of the lock_guard
HashLruBody ==
    \E t \in Threads :
        /\ thr[t].pc = "locked" /\ thr[t].at = "slice"
        /\ \E r \in {LruLocked(HashLruSlice(hashLru, thr[t]), thr[t].op, thr[t].key,
                             thr[t].value, thr[t].found)} :
              /\ hashLru' = [hashLru EXCEPT
                              !.lruSliceCaches_[SliceIndex(hashLru, thr[t].key)] = r.cache]
              /\ last' = Call(thr[t].op, thr[t].key, thr[t].value, r.hit, r.out,
                              HashLruKeys(hashLru) \ HashLruKeys(hashLru'))
              /\ mutex' = [mutex EXCEPT !.slices[SliceIndex(hashLru, thr[t].key)] = NoThread]
              /\ thr' = [thr EXCEPT ![t] = IdleThread]
              /\ UNCHANGED <<lru, lruUse, lfu, arc, written, serial, calls, hashLfu,
                             s5Vars, lrukVars>>

HashLfuReturnNoCapacity ==
    \E t \in Threads :
        /\ thr[t].pc = "call" /\ thr[t].op = "put"
        /\ HashLfuSlice(hashLfu, thr[t]).capacity_ = 0
        /\ thr' = [thr EXCEPT ![t] = IdleThread]
        /\ last' = Call("put", thr[t].key, thr[t].value, FALSE, NoValue, {})
        /\ UNCHANGED <<lru, lruUse, lfu, arc, written, mutex, serial, calls,
                       s5Vars, lrukVars, shardVars>>

HashLfuLock ==
    \E t \in Threads :
        /\ thr[t].pc = "call"
        /\ thr[t].op = "put" => HashLfuSlice(hashLfu, thr[t]).capacity_ # 0
        /\ mutex.slices[SliceIndex(hashLfu, thr[t].key)] = NoThread
        /\ \E order \in Orders(LfuKeys(HashLfuSlice(hashLfu, thr[t])) \cup {thr[t].key}) :
              /\ mutex' = [mutex EXCEPT !.slices[SliceIndex(hashLfu, thr[t].key)] = t]
              /\ thr' = [thr EXCEPT ![t].pc = "locked", ![t].at = "slice", ![t].order = order,
                                    ![t].found = thr[t].key \in LfuKeys(HashLfuSlice(hashLfu, thr[t]))]
              /\ UNCHANGED <<lru, lruUse, lfu, arc, written, last, serial, calls,
                             s5Vars, lrukVars, shardVars>>

HashLfuBody ==
    \E t \in Threads :
        /\ thr[t].pc = "locked" /\ thr[t].at = "slice"
        /\ \E r \in {LfuLocked(HashLfuSlice(hashLfu, thr[t]), thr[t].op, thr[t].key,
                             thr[t].value, thr[t].found, thr[t].order)} :
              /\ hashLfu' = [hashLfu EXCEPT
                              !.lfuSliceCaches_[SliceIndex(hashLfu, thr[t].key)] = r.cache]
              /\ last' = Call(thr[t].op, thr[t].key, thr[t].value, r.hit, r.out,
                              HashLfuKeys(hashLfu) \ HashLfuKeys(hashLfu'))
              /\ mutex' = [mutex EXCEPT !.slices[SliceIndex(hashLfu, thr[t].key)] = NoThread]
              /\ thr' = [thr EXCEPT ![t] = IdleThread]
              /\ UNCHANGED <<lru, lruUse, lfu, arc, written, serial, calls, hashLru,
                             s5Vars, lrukVars>>

\* the composed caches, the scenarios and the threads are not used
ExtIdle == S5Idle /\ LruKIdle /\ ThreadsIdle /\ HashIdle

\* ========================================================= specifications
\* one cache object is constructed, and the calls are made one after another
LruNext == LruDoPut \/ LruDoGet \/ LruDoRemove

LfuNext == LfuDoPut \/ LfuDoGet

ArcNext == ArcDoPut \/ ArcDoGet

InitLru == LruInit /\ LfuIdle /\ ArcIdle /\ ExtIdle /\ last = NoCall

InitLfu == LfuInit /\ LruIdle /\ ArcIdle /\ ExtIdle /\ last = NoCall

InitArc == ArcInit /\ LruIdle /\ LfuIdle /\ ExtIdle /\ last = NoCall

SpecLru == InitLru /\ [][LruNext]_vars

SpecLfu == InitLfu /\ [][LfuNext]_vars

SpecArc == InitArc /\ [][ArcNext]_vars

\* an ArcCache that is only written, over one more key
ArcPutsNext == ArcDoPutWide

SpecArcPuts == InitArc /\ [][ArcPutsNext]_vars

\* an ArcCache of a small capacity under any calls, or the ArcCache of
\* scenario S5 under the calls of S5
InitArcS5 ==
    /\ last = NoCall /\ LruIdle /\ LfuIdle /\ LruKIdle /\ ThreadsIdle /\ HashIdle
    /\ (ArcInit /\ S5Idle) \/ S5Init

NextArcS5 ==
    \/ S5Idle /\ ArcDoPut
    \/ S5Idle /\ ArcDoGet
    \/ S5PutKey
    \/ S5GetKey
    \/ S5PutOther
    \/ S5GetAgain

SpecArcS5 == InitArcS5 /\ [][NextArcS5]_vars

\* an LRU-K cache
InitLruK ==
    /\ last = NoCall /\ LruIdle /\ LfuIdle /\ ArcIdle /\ S5Idle /\ ThreadsIdle /\ HashIdle
    /\ LruKInit

NextLruK == LruKDoPut \/ LruKDoGet

SpecLruK == InitLruK /\ [][NextLruK]_vars

\* an LruCache or an LfuCache that two threads call
InitThreads ==
    /\ last = NoCall /\ ArcIdle /\ S5Idle /\ LruKIdle /\ HashIdle
    /\ (LruInit /\ LfuIdle) \/ (LfuInit /\ LruIdle)
    /\ ThreadsInit
    /\ serial = [lru |-> lru, lfu |-> lfu]

NextThreads ==
    \/ LfuIdle /\ LruBegin
    \/ LfuIdle /\ LruReturnNoCapacity
    \/ LfuIdle /\ LruLock
    \/ LfuIdle /\ LruBody
    \/ LruIdle /\ LfuBegin
    \/ LruIdle /\ LfuReturnNoCapacity
    \/ LruIdle /\ LfuLock
    \/ LruIdle /\ LfuBody

SpecThreads == InitThreads /\ [][NextThreads]_vars

\* an ArcCache that two threads call
InitArcThreads ==
    /\ last = NoCall /\ LruIdle /\ LfuIdle /\ S5Idle /\ LruKIdle /\ HashIdle
    /\ ArcInit
    /\ ThreadsInit
    /\ serial = NoSerial

NextArcThreads == ArcBegin \/ ArcEnter \/ ArcExit

SpecArcThreads == InitArcThreads /\ [][NextArcThreads]_vars

\* an LfuCache or an ArcCache that two threads call, purge() included
InitAccess ==
    /\ last = NoCall /\ LruIdle /\ S5Idle /\ LruKIdle /\ HashIdle
    /\ (LfuInit /\ lfu.capacity_ > 0 /\ ArcIdle) \/ (ArcInit /\ LfuIdle)
    /\ ThreadsInit
    /\ serial = [lru |-> lru, lfu |-> lfu]

NextAccess ==
    \/ ArcIdle /\ LfuCall
    \/ ArcIdle /\ LfuLock
    \/ ArcIdle /\ LfuBody
    \/ ArcIdle /\ LfuPurgeEnter
    \/ ArcIdle /\ LfuPurgeBody
    \/ LfuIdle /\ ArcBegin
    \/ LfuIdle /\ ArcEnter
    \/ LfuIdle /\ ArcExit

SpecAccess == InitAccess /\ [][NextAccess]_vars

\* an LfuCache of capacity MaxWideCap under puts alone
InitLfuWide == LfuWideInit /\ LruIdle /\ ArcIdle /\ ExtIdle /\ last = NoCall

LfuWideNext == LfuDoPutWide

SpecLfuWide == InitLfuWide /\ [][LfuWideNext]_vars

\* an LfuCache that its user also purges
LfuPurgeNext == LfuDoPut \/ LfuDoGet \/ LfuDoPurge

SpecLfuPurge == InitLfu /\ [][LfuPurgeNext]_vars

\* a HashLruCaches or a HashLfuCache
InitShards ==
    /\ last = NoCall /\ LruIdle /\ LfuIdle /\ ArcIdle /\ S5Idle /\ LruKIdle /\ ThreadsIdle
    /\ HashLruInit \/ HashLfuInit

NextShards ==
    \/ hashLru # <<>> /\ HashLruDoPut
    \/ hashLru # <<>> /\ HashLruDoGet
    \/ hashLfu # <<>> /\ HashLfuDoPut
    \/ hashLfu # <<>> /\ HashLfuDoGet
    \/ hashLfu # <<>> /\ HashLfuDoPurge

SpecShards == InitShards /\ [][NextShards]_vars

\* an LruCache or an LfuCache
InitLruLfu ==
    /\ last = NoCall /\ ArcIdle /\ ExtIdle
    /\ (LruInit /\ LfuIdle) \/ (LfuInit /\ LruIdle)

NextLruLfu ==
    \/ LfuIdle /\ LruDoPut
    \/ LfuIdle /\ LruDoGet
    \/ LfuIdle /\ LruDoRemove
    \/ LruIdle /\ LfuDoPut
    \/ LruIdle /\ LfuDoGet

SpecLruLfu == InitLruLfu /\ [][NextLruLfu]_vars

\* one cache of any kind that two threads call, every call counted.  The
\* cache in use is the one that is not as the idle ones are
OnLru == lru.capacity_ # 0

OnLfu == lfu.capacity_ # 0 \/ lfu.maxAverageNum_ # 1

OnArc == arc.capacity_ # 0

OnHashLru == hashLru # <<>>

OnHashLfu == hashLfu # <<>>

InitCalls ==
    /\ last = NoCall /\ S5Idle /\ LruKIdle
    /\ \/ /\ LruInit /\ OnLru /\ LfuIdle /\ ArcIdle /\ HashIdle
          /\ ThreadsInit /\ serial = [lru |-> lru, lfu |-> lfu]
       \/ /\ lfu \in {LfuNew(c, 2) : c \in 0..1}
          /\ LruIdle /\ ArcIdle /\ HashIdle
          /\ ThreadsInit /\ serial = [lru |-> lru, lfu |-> lfu]
       \/ /\ ArcInit /\ arc.capacity_ = 1 /\ LruIdle /\ LfuIdle /\ HashIdle
          /\ ThreadsInit /\ serial = NoSerial
       \/ /\ hashLru \in {HashLruNew(c * n, n) : c \in 0..1, n \in 2..MaxShards}
          /\ hashLfu = <<>>
          /\ LruIdle /\ LfuIdle /\ ArcIdle /\ HashThreadsInit(hashLru.sliceNum_)
       \/ /\ hashLfu \in {HashLfuNew(c * n, n, 2) : c \in 0..1, n \in 2..MaxShards}
          /\ hashLru = <<>>
          /\ LruIdle /\ LfuIdle /\ ArcIdle /\ HashThreadsInit(hashLfu.sliceNum_)

NextCalls ==
    \/ OnLru /\ LruCall
    \/ OnLru /\ LruReturnNoCapacity
    \/ OnLru /\ LruLock
    \/ OnLru /\ LruBody
    \/ OnLfu /\ LfuCall
    \/ OnLfu /\ LfuReturnNoCapacity
    \/ OnLfu /\ LfuLock
    \/ OnLfu /\ LfuBody
    \/ OnLfu /\ LfuPurgeEnter
    \/ OnLfu /\ LfuPurgeBody
    \/ OnArc /\ ArcBegin
    \/ OnArc /\ ArcEnter
    \/ OnArc /\ ArcExit
    \/ (OnHashLru \/ OnHashLfu) /\ HashCall
    \/ OnHashLru /\ HashLruReturnNoCapacity
    \/ OnHashLru /\ HashLruLock
    \/ OnHashLru /\ HashLruBody
    \/ OnHashLfu /\ HashLfuReturnNoCapacity
    \/ OnHashLfu /\ HashLfuLock
    \/ OnHashLfu /\ HashLfuBody

SpecCalls == InitCalls /\ [][NextCalls]_vars

\* the steps inside calls: every step but the start of a call
CallsProceed ==
    \/ OnLru /\ (LruReturnNoCapacity \/ LruLock \/ LruBody)
    \/ OnLfu /\ (LfuReturnNoCapacity \/ LfuLock \/ LfuBody \/ LfuPurgeEnter \/ LfuPurgeBody)
    \/ OnArc /\ (ArcEnter \/ ArcExit)
    \/ OnHashLru /\ (HashLruReturnNoCapacity \/ HashLruLock \/ HashLruBody)
    \/ OnHashLfu /\ (HashLfuReturnNoCapacity \/ HashLfuLock \/ HashLfuBody)

\* a step of thread t inside a call
ThreadStep(t) == thr[t].pc # "idle" /\ CallsProceed /\ thr'[t] # thr[t]

\* the scheduler lets a thread run that can run: a thread that stays able
\* to take its next step takes it
SpecCallsFair == SpecCalls /\ \A t \in Threads : WF_vars(ThreadStep(t))

\* any one of the three caches
Init ==
    /\ last = NoCall /\ ExtIdle
    /\ \/ LruInit /\ LfuIdle /\ ArcIdle
       \/ LfuInit /\ LruIdle /\ ArcIdle
       \/ ArcInit /\ LruIdle /\ LfuIdle

Next ==
    \/ LfuIdle /\ ArcIdle /\ LruDoPut
    \/ LfuIdle /\ ArcIdle /\ LruDoGet
    \/ LfuIdle /\ ArcIdle /\ LruDoRemove
    \/ LruIdle /\ ArcIdle /\ LfuDoPut
    \/ LruIdle /\ ArcIdle /\ LfuDoGet
    \/ LruIdle /\ LfuIdle /\ ArcDoPut
    \/ LruIdle /\ LfuIdle /\ ArcDoGet

Spec == Init /\ [][Next]_vars

\* ============================================================ properties
\* the helpers are called where the code is defined: an eviction finds a node
\* in the list it takes it from
LruEvictDefined == LruSize(lru) >= 1 => lru.list # <<>>

LfuKickOutDefined ==
    (lfu.capacity_ >= 1 /\ LfuSize(lfu) = lfu.capacity_) =>
        /\ lfu.minFreq_ \in DOMAIN lfu.freqToFreqList_
        /\ ~FreqListIsEmpty(lfu, lfu.minFreq_)

NoDuplicates(s) == Cardinality(SeqSet(s)) = Len(s)

ArcListsDefined ==
    /\ NoDuplicates(arc.lruPart_.mainList)
    /\ SeqSet(arc.lruPart_.mainList) = T1(arc)
    /\ \A f \in DOMAIN arc.lfuPart_.freqMap_ :
          /\ NoDuplicates(arc.lfuPart_.freqMap_[f])
          /\ \A k \in SeqSet(arc.lfuPart_.freqMap_[f]) :
                k \in T2(arc) /\ arc.lfuPart_.mainCache_[k].accessCount = f
    /\ \A k \in T2(arc) :
          /\ arc.lfuPart_.mainCache_[k].accessCount \in DOMAIN arc.lfuPart_.freqMap_
          /\ k \in SeqSet(arc.lfuPart_.freqMap_[arc.lfuPart_.mainCache_[k].accessCount])

\* C1: with capacity >= 1, put(k, v) immediately followed by get(k) is a hit
\* that returns v, in LruCache and in LfuCache, whether k was resident or not
C1_PutThenGet ==
    last.op = "put" =>
        /\ lru.capacity_ >= 1 =>
              LruGet(lru, last.key).hit /\ LruGet(lru, last.key).out = last.value
        /\ lfu.capacity_ >= 1 =>
              LfuGet(lfu, last.key).hit /\ LfuGet(lfu, last.key).out = last.value

\* a put has replaced the value of a resident key of an LfuCache
C1_Witness ==
    /\ last.op = "put" /\ lfu.capacity_ >= 1
    /\ last.key \in LfuKeys(lfu)
    /\ lfu.nodeMap_[last.key].freq >= 2
    /\ last.value = 2

\* C2: in ArcCache with capacity >= 1, put(k, v) immediately followed by
\* get(k) is a hit that returns v, and a put of a key that is in no list
\* makes it resident in T1
C2_ArcPutThenGet ==
    [][(last'.op = "put" /\ arc'.capacity_ >= 1) =>
          /\ ArcGet(arc', last'.key).hit
          /\ ArcGet(arc', last'.key).out = last'.value
          /\ last'.key \notin (T1(arc) \cup T2(arc) \cup B1(arc) \cup B2(arc)) =>
                last'.key \in T1(arc')]_vars

\* C3: every get of an ArcCache that reports a hit returns the value of the
\* most recent put of that key
C3_ArcGetLatest ==
    (last.op = "get" /\ last.hit /\ arc.capacity_ >= 1) =>
        /\ last.key \in DOMAIN written
        /\ last.out = written[last.key]

\* C4: with capacity >= 1, the number of resident entries of an LruCache and
\* of an LfuCache is at most the capacity after every call
C4_SizeAtMostCapacity ==
    /\ lru.capacity_ >= 1 => LruSize(lru) <= lru.capacity_
    /\ lfu.capacity_ >= 1 => LfuSize(lfu) <= lfu.capacity_

\* C5: in LruCache a put of a non-resident key at size = capacity evicts
\* exactly the resident key whose latest put or get is the oldest, and every
\* other resident key stays with its value
C5_LruEvictsLeastRecent ==
    [][(/\ last'.op = "put"
        /\ lru.capacity_ >= 1
        /\ last'.key \notin LruKeys(lru)
        /\ LruSize(lru) = lru.capacity_) =>
          /\ lruUse # <<>>
          /\ LruKeys(lru') = (LruKeys(lru) \ {Head(lruUse)}) \cup {last'.key}
          /\ \A k \in LruKeys(lru) \ {Head(lruUse)} :
                lru'.list[LruFind(lru', k)].value = lru.list[LruFind(lru, k)].value]_vars

\* the entries of minimal frequency
LfuMinFreq(c) == Min({c.nodeMap_[k].freq : k \in LfuKeys(c)})

\* C6: in LfuCache a put of a non-resident key at size = capacity evicts
\* exactly one entry, which has the minimal frequency of all resident entries
\* and is the first of the entries of that frequency's list
C6_LfuEvictsLeastFrequent ==
    [][(/\ last'.op = "put"
        /\ lfu.capacity_ >= 1
        /\ last'.key \notin LfuKeys(lfu)
        /\ LfuSize(lfu) = lfu.capacity_) =>
          \E victim \in LfuKeys(lfu) :
              /\ LfuKeys(lfu') = (LfuKeys(lfu) \ {victim}) \cup {last'.key}
              /\ lfu.nodeMap_[victim].freq = LfuMinFreq(lfu)
              /\ victim = Head(lfu.freqToFreqList_[LfuMinFreq(lfu)])]_vars

\* a put to a full LfuCache has evicted an entry and left an entry of a
\* higher frequency resident
C6_Witness ==
    /\ last.op = "put" /\ lfu.capacity_ >= 2
    /\ last.gone # {} /\ last.key \notin last.gone
    /\ \E k \in LfuKeys(lfu) : lfu.nodeMap_[k].freq >= 2

\* C7: an LruCache or LfuCache of capacity <= 0, and an ArcCache of capacity
\* 0, has no resident entry after any call, and every get misses
C7_NoCapacityNoEntry ==
    /\ lru.capacity_ <= 0 => LruKeys(lru) = {}
    /\ lfu.capacity_ <= 0 => LfuKeys(lfu) = {}
    /\ arc.capacity_ = 0 => ArcResident(arc) = {}
    /\ (lru.capacity_ <= 0 /\ lfu.capacity_ <= 0 /\ arc.capacity_ = 0) => ~last.hit

\* C8: |T1| + |T2| <= c in every state of an ArcCache of capacity c
C8_ArcResidentAtMostCapacity ==
    Cardinality(T1(arc)) + Cardinality(T2(arc)) <= arc.capacity_

\* C9: |T1| + |B1| <= c and |T2| + |B2| <= 2c in every state of an ArcCache
C9_ArcGhostBounds ==
    /\ Cardinality(T1(arc)) + Cardinality(B1(arc)) <= arc.capacity_
    /\ Cardinality(T2(arc)) + Cardinality(B2(arc)) <= 2 * arc.capacity_

\* C10: the capacity of the recency half, the target p, stays in 0..c
C10_ArcTargetInRange ==
    /\ 0 <= arc.lruPart_.capacity_
    /\ arc.lruPart_.capacity_ <= arc.capacity_

\* C11: a put or get of a key found in B1 while the frequency half's capacity
\* is > 0 grows the recency half's capacity by exactly 1 and shrinks the
\* frequency half's by exactly 1; a key found in B2 while the recency half's
\* capacity is > 0 shrinks the recency half's by 1 and grows the frequency
\* half's by 1; a call whose key is in neither ghost list changes no capacity
C11_GhostHitAdapts ==
    [][(last'.op \in {"put", "get"}) =>
          /\ (last'.key \in B1(arc) /\ arc.lfuPart_.capacity_ > 0) =>
                /\ arc'.lruPart_.capacity_ = arc.lruPart_.capacity_ + 1
                /\ arc'.lfuPart_.capacity_ = arc.lfuPart_.capacity_ - 1
          /\ (last'.key \in B2(arc) /\ arc.lruPart_.capacity_ > 0) =>
                /\ arc'.lruPart_.capacity_ = arc.lruPart_.capacity_ - 1
                /\ arc'.lfuPart_.capacity_ = arc.lfuPart_.capacity_ + 1
          /\ last'.key \notin (B1(arc) \cup B2(arc)) =>
                /\ arc'.lruPart_.capacity_ = arc.lruPart_.capacity_
                /\ arc'.lfuPart_.capacity_ = arc.lfuPart_.capacity_]_vars

\* the same, for the calls whose key is in at most one of the ghost lists
C11_OneGhostList ==
    [][(last'.op \in {"put", "get"} /\ last'.key \notin (B1(arc) \cap B2(arc))) =>
          /\ (last'.key \in B1(arc) /\ arc.lfuPart_.capacity_ > 0) =>
                /\ arc'.lruPart_.capacity_ = arc.lruPart_.capacity_ + 1
                /\ arc'.lfuPart_.capacity_ = arc.lfuPart_.capacity_ - 1
          /\ (last'.key \in B2(arc) /\ arc.lruPart_.capacity_ > 0) =>
                /\ arc'.lruPart_.capacity_ = arc.lruPart_.capacity_ - 1
                /\ arc'.lfuPart_.capacity_ = arc.lfuPart_.capacity_ + 1
          /\ last'.key \notin (B1(arc) \cup B2(arc)) =>
                /\ arc'.lruPart_.capacity_ = arc.lruPart_.capacity_
                /\ arc'.lfuPart_.capacity_ = arc.lfuPart_.capacity_]_vars

\* C12: after a put(k, v) or a get(k) issued while k is a ghost in B1 or in
\* B2, k is no longer in that ghost list and k is resident in T1
C12_GhostHitToT1 ==
    [][(last'.op \in {"put", "get"}) =>
          /\ last'.key \in B1(arc) =>
                last'.key \notin B1(arc') /\ last'.key \in T1(arc')
          /\ last'.key \in B2(arc) =>
                last'.key \notin B2(arc') /\ last'.key \in T1(arc')]_vars

C13_WitnessPromotion ==
    /\ last.op = "get" /\ last.hit /\ S5Idle
    /\ last.key \in T1(arc) /\ last.key \in T2(arc)
    /\ arc.lfuPart_.mainCache_[last.key].accessCount = 1

\* C14: in the LRU-K cache with threshold K >= 2, a key that is not resident
\* in the main cache becomes resident only by a put that brings its history
\* count to at least K; and after fewer than K put and get calls of a key,
\* the key is not resident in the main cache and a get of it misses
C14_ColdKeysFiltered ==
    [][lruk.k_ >= 2 =>
          /\ \A k \in Keys :
                (k \notin LruKeys(lruk.main) /\ k \in LruKeys(lruk'.main)) =>
                    /\ last'.op = "put" /\ last'.key = k
                    /\ LruGet(lruk.historyList_, k).out + 1 >= lruk.k_
          /\ \A k \in Keys :
                Uses(lrukUse', k) < lruk.k_ =>
                    /\ k \notin LruKeys(lruk'.main)
                    /\ (last'.op = "get" /\ last'.key = k) => ~last'.hit]_vars

\* the invariants of the data model between calls: the resident size is at
\* most the capacity; every node of a list is the node of an index entry, and
\* every index entry has one node, for LfuCache in the list of its frequency;
\* and minFreq_ is the least frequency of a resident entry
SizeInvariant(size, capacity) == capacity >= 0 => size <= capacity

LruIndexMatchesList(c) ==
    /\ \A i \in 1..Len(c.list) : c.list[i].inMap
    /\ Len(c.list) = LruSize(c)

LfuIndexMatchesLists(c) ==
    /\ \A k \in LfuKeys(c) :
          /\ c.nodeMap_[k].freq \in DOMAIN c.freqToFreqList_
          /\ Len(SelectSeq(c.freqToFreqList_[c.nodeMap_[k].freq], LAMBDA x : x = k)) = 1
    /\ \A f \in DOMAIN c.freqToFreqList_ :
          \A i \in 1..Len(c.freqToFreqList_[f]) :
              /\ c.freqToFreqList_[f][i] \in LfuKeys(c)
              /\ c.nodeMap_[c.freqToFreqList_[f][i]].freq = f

LfuMinFreqInvariant(c) == LfuKeys(c) # {} => c.minFreq_ = LfuMinFreq(c)

\* no call is inside LruCache or LfuCache
Quiet == mutex.lru = NoThread /\ mutex.lfu = NoThread

\* the calls of the threads take effect one at a time: every call returns
\* what it returns when run alone at the moment it locks the mutex, and
\* between the calls the cache is what those calls leave when run alone
CallsAreAtomic ==
    [][/\ \A t \in Threads :
             (thr[t].pc = "locked" /\ thr'[t].pc = "idle") =>
                 /\ last'.hit = thr[t].hit
                 /\ last'.out = thr[t].out
       /\ Quiet' => (lru' = serial'.lru /\ lfu' = serial'.lfu)]_vars

\* C15: under any interleaving of put, get and remove calls of several
\* threads on one LruCache, or of put and get calls on one LfuCache, every
\* call takes effect atomically (results and final state are those of the
\* calls run one at a time in some order), and whenever no call is in
\* progress the size, index/list and minFreq invariants hold
C15_AtomicCallsKeepInvariants ==
    [][/\ \A t \in Threads :
             (thr[t].pc = "locked" /\ thr'[t].pc = "idle") =>
                 /\ last'.hit = thr[t].hit
                 /\ last'.out = thr[t].out
       /\ Quiet' =>
             /\ lru' = serial'.lru /\ lfu' = serial'.lfu
             /\ SizeInvariant(LruSize(lru'), lru'.capacity_)
             /\ SizeInvariant(LfuSize(lfu'), lfu'.capacity_)
             /\ LruIndexMatchesList(lru')
             /\ LfuIndexMatchesLists(lfu')
             /\ LfuMinFreqInvariant(lfu')]_vars

\* C16: every read or write of a policy's index, lists, ghost lists and
\* capacity field happens while the calling thread holds that structure's
\* mutex, LfuCache::purge and the ghost check and capacity adjustment of
\* ArcCache put/get included; and no two threads are inside the same
\* structure at once
C16_AccessUnderMutex ==
    /\ \A t \in Threads : thr[t].at # "none" => mutex[thr[t].at] = t
    /\ \A t, u \in Threads : (t # u /\ thr[t].at # "none") => thr[t].at # thr[u].at

\* C17: concurrent put and get calls of several threads on one ArcCache are
\* serializable: when every call has returned, the hits and values returned
\* and the final T1, T2, B1, B2 and capacities are those of the same calls
\* run one at a time in some order
C17_ArcSerializable ==
    (\A t \in Threads : thr[t].pc = "idle") =>
        \E order \in Orders(1..Len(calls)) :
            ArcRunsTo(ArcNew(arc.capacity_, arc.transformThreshold_), calls, order, arc)

\* the slice that the claims give to key k among n slices
ShardOf(k, n) == (k % n) + 1

\* the least q with q * n >= c
CeilOf(c, n) == CHOOSE q \in 0..c : q * n >= c /\ (q - 1) * n < c

LruShardStep(h, h2, c) ==
    /\ \A i \in 1..h.sliceNum_ :
          i # ShardOf(c.key, h.sliceNum_) => h2.lruSliceCaches_[i] = h.lruSliceCaches_[i]
    /\ h2.lruSliceCaches_[ShardOf(c.key, h.sliceNum_)] =
          IF c.op = "put"
          THEN LruPut(h.lruSliceCaches_[ShardOf(c.key, h.sliceNum_)], c.key, c.value)
          ELSE LruGet(h.lruSliceCaches_[ShardOf(c.key, h.sliceNum_)], c.key).cache
    /\ \A k \in c.gone : ShardOf(k, h.sliceNum_) = ShardOf(c.key, h.sliceNum_)

LfuShardStep(h, h2, c) ==
    /\ \A i \in 1..h.sliceNum_ :
          i # ShardOf(c.key, h.sliceNum_) => h2.lfuSliceCaches_[i] = h.lfuSliceCaches_[i]
    /\ h2.lfuSliceCaches_[ShardOf(c.key, h.sliceNum_)] \in
          IF c.op = "put"
          THEN {LfuPut(h.lfuSliceCaches_[ShardOf(c.key, h.sliceNum_)], c.key, c.value, o) :
                   o \in Orders(LfuKeys(h.lfuSliceCaches_[ShardOf(c.key, h.sliceNum_)])
                                \cup {c.key})}
          ELSE {LfuGet(h.lfuSliceCaches_[ShardOf(c.key, h.sliceNum_)], c.key).cache}
    /\ \A k \in c.gone : ShardOf(k, h.sliceNum_) = ShardOf(c.key, h.sliceNum_)

\* C18: in a sharded cache with N shards a put or get of key k acts on the
\* shard hash(k) mod N as that shard's own put or get, leaves every other
\* shard as it was, and evicts no key of another shard
C18_ShardDispatch ==
    [][last'.op \in {"put", "get"} =>
          /\ hashLru # <<>> => LruShardStep(hashLru, hashLru', last')
          /\ hashLfu # <<>> => LfuShardStep(hashLfu, hashLfu', last')]_vars

\* C18 witness: a put evicted a key of its own shard while another shard was
\* full, and that shard kept its keys
C18_Witness ==
    /\ hashLru # <<>>
    /\ last.op = "put" /\ last.gone # {}
    /\ \E i \in 1..hashLru.sliceNum_ :
          /\ i # ShardOf(last.key, hashLru.sliceNum_)
          /\ LruSize(hashLru.lruSliceCaches_[i]) = hashLru.lruSliceCaches_[i].capacity_

\* C18 witness for the HashLfuCache
C18_WitnessLfu ==
    /\ hashLfu # <<>>
    /\ last.op = "put" /\ last.gone # {}
    /\ \E i \in 1..hashLfu.sliceNum_ :
          /\ i # ShardOf(last.key, hashLfu.sliceNum_)
          /\ LfuSize(hashLfu.lfuSliceCaches_[i]) = hashLfu.lfuSliceCaches_[i].capacity_

\* C19: each shard of a sharded cache of total capacity C with N shards has
\* capacity ceil(C / N), and the resident entries of all shards together
\* never number more than C
C19_ShardCapacity ==
    /\ hashLru # <<>> =>
          /\ \A i \in 1..hashLru.sliceNum_ :
                hashLru.lruSliceCaches_[i].capacity_ = CeilOf(hashLru.capacity_, hashLru.sliceNum_)
          /\ Cardinality(HashLruKeys(hashLru)) <= hashLru.capacity_
    /\ hashLfu # <<>> =>
          /\ \A i \in 1..hashLfu.sliceNum_ :
                hashLfu.lfuSliceCaches_[i].capacity_ = CeilOf(hashLfu.capacity_, hashLfu.sliceNum_)
          /\ Cardinality(HashLfuKeys(hashLfu)) <= hashLfu.capacity_

\* the first half of C19 alone: every shard has capacity ceil(C / N)
ShardCapacityIsCeil ==
    /\ hashLru # <<>> =>
          \A i \in 1..hashLru.sliceNum_ :
             hashLru.lruSliceCaches_[i].capacity_ = CeilOf(hashLru.capacity_, hashLru.sliceNum_)
    /\ hashLfu # <<>> =>
          \A i \in 1..hashLfu.sliceNum_ :
             hashLfu.lfuSliceCaches_[i].capacity_ = CeilOf(hashLfu.capacity_, hashLfu.sliceNum_)

\* the total of a HashLfuCache is within N * ceil(C / N)
LfuShardsWithinSlices ==
    hashLfu # <<>> =>
        Cardinality(HashLfuKeys(hashLfu)) <=
            hashLfu.sliceNum_ * CeilOf(hashLfu.capacity_, hashLfu.sliceNum_)

\* C20: in LfuCache every get that hits adds 1 to curTotalNum_ (and then
\* compares the average with maxAverageNum_, so that repeated gets of one key
\* bring an aging pass)
C20_GetHitCountsAccess ==
    [][(last'.op = "get" /\ last'.hit) => lfu'.curTotalNum_ = lfu.curTotalNum_ + 1]_vars

\* the entries of nodeMap_ in the order of their nodes in the list
LruEntries(c) == SelectSeq(c.list, LAMBDA n : n.inMap)

LruEntriesBut(c, k) == SelectSeq(LruEntries(c), LAMBDA n : n.key # k)

\* C21: in LruCache remove(k) of a key that is not resident leaves the whole
\* state as it was; remove(k) of a resident key makes the next get(k) miss,
\* makes the size one less, and leaves every other entry, its value and the
\* order of the others as they were
C21_RemoveFrame ==
    [][last'.op = "remove" =>
          IF last'.key \notin LruKeys(lru)
          THEN lru' = lru
          ELSE /\ ~LruGet(lru', last'.key).hit
               /\ LruSize(lru') = LruSize(lru) - 1
               /\ LruEntriesBut(lru', last'.key) = LruEntriesBut(lru, last'.key)]_vars

\* C21 witness: a resident key was removed and another key is still resident
C21_Witness ==
    /\ last.op = "remove" /\ last.gone = {last.key}
    /\ LruKeys(lru) # {}
    /\ Len(LruEntries(lru)) >= 2

\* max(1, f)
AtLeastOne(f) == IF f < 1 THEN 1 ELSE f

\* curTotal / size > maxAvg in the cache c
OverMaxAverage(c) ==
    LfuKeys(c) # {} /\ c.curTotalNum_ \div LfuSize(c) > c.maxAverageNum_

\* the smallest frequency whose list is not empty
LfuMinBucket(c) == Min({f \in DOMAIN c.freqToFreqList_ : c.freqToFreqList_[f] # <<>>})

\* the entries that c and c2 both hold, k apart, are in c2 what an aging
\* pass makes of them in c
LfuAged(c, c2, k) ==
    /\ \A x \in LfuKeys(c2) \ {k} :
          /\ x \in LfuKeys(c)
          /\ c2.nodeMap_[x].freq =
                AtLeastOne(c.nodeMap_[x].freq - (c.maxAverageNum_ \div 2))
    /\ \A x \in LfuKeys(c2) :
          /\ c2.nodeMap_[x].freq \in DOMAIN c2.freqToFreqList_
          /\ x \in SeqSet(c2.freqToFreqList_[c2.nodeMap_[x].freq])
    /\ c2.minFreq_ = LfuMinBucket(c2)

\* the entries that c and c2 both hold, k apart, have in c2 the freq they have in c
LfuNotAged(c, c2, k) ==
    \A x \in LfuKeys(c2) \ {k} :
        x \in LfuKeys(c) /\ c2.nodeMap_[x].freq = c.nodeMap_[x].freq

\* C22: in LfuCache a call that changes curTotalNum_ (the put of a key that
\* is not resident) runs an aging pass exactly when curTotal / size > maxAvg
\* afterwards: then every resident freq becomes max(1, freq - maxAvg / 2),
\* every entry is in the list of its new freq and minFreq_ is the smallest
\* frequency with a non-empty list; otherwise no freq changes
C22_AgingWhenOverAverage ==
    [][(/\ last'.op = "put"
        /\ lfu.capacity_ # 0
        /\ last'.key \notin LfuKeys(lfu)) =>
          IF OverMaxAverage(lfu')
          THEN LfuAged(lfu, lfu', last'.key)
          ELSE LfuNotAged(lfu, lfu', last'.key)]_vars

\* C23: in LfuCache after every put or get, evicting and aging ones
\* included, the cache is empty or minFreq_ is the smallest frequency whose
\* list is not empty
C23_MinFreqIsSmallestBucket ==
    \/ LfuKeys(lfu) = {}
    \/ /\ \E f \in DOMAIN lfu.freqToFreqList_ : lfu.freqToFreqList_[f] # <<>>
       /\ lfu.minFreq_ = LfuMinBucket(lfu)

\* C23 witness: a get has emptied the list of minFreq_ and moved minFreq_ up
C23_Witness ==
    /\ last.op = "get" /\ last.hit
    /\ lfu.minFreq_ >= 2
    /\ LfuSize(lfu) >= 2

\* C23 witness: a put has evicted an entry and run an aging pass
C23_WitnessAging ==
    /\ last.op = "put" /\ last.gone # {}
    /\ lfu.curAverageNum_ > lfu.maxAverageNum_
    /\ LfuKeys(lfu) # {}

\* the sum of the lengths of the lists of the frequencies fs
RECURSIVE LfuListsLength(_, _)
LfuListsLength(c, fs) ==
    IF fs = {} THEN 0
    ELSE LET f == CHOOSE x \in fs : TRUE
         IN  Len(c.freqToFreqList_[f]) + LfuListsLength(c, fs \ {f})

\* the number of places that key k has in the lists of c
RECURSIVE LfuPlaces(_, _, _)
LfuPlaces(c, fs, k) ==
    IF fs = {} THEN 0
    ELSE LET f == CHOOSE x \in fs : TRUE
         IN  Len(SelectSeq(c.freqToFreqList_[f], LAMBDA x : x = k))
                + LfuPlaces(c, fs \ {f}, k)

\* C24: in LfuCache after every call each key of nodeMap_ is once in one
\* frequency list, the list of its freq, no list holds a key that is not in
\* nodeMap_, and nodeMap_ has as many keys as the lists have nodes
C24_IndexMatchesBuckets ==
    /\ \A k \in LfuKeys(lfu) :
          /\ LfuPlaces(lfu, DOMAIN lfu.freqToFreqList_, k) = 1
          /\ lfu.nodeMap_[k].freq \in DOMAIN lfu.freqToFreqList_
          /\ k \in SeqSet(lfu.freqToFreqList_[lfu.nodeMap_[k].freq])
    /\ \A f \in DOMAIN lfu.freqToFreqList_ : SeqSet(lfu.freqToFreqList_[f]) \subseteq LfuKeys(lfu)
    /\ LfuSize(lfu) = LfuListsLength(lfu, DOMAIN lfu.freqToFreqList_)

\* C24 witness: after an eviction two keys are resident in two lists
C24_Witness ==
    /\ last.op = "put" /\ last.gone # {}
    /\ \E j, k \in LfuKeys(lfu) : lfu.nodeMap_[j].freq # lfu.nodeMap_[k].freq

\* the sum of the freq fields of the entries of the keys ks
RECURSIVE LfuFreqSum(_, _)
LfuFreqSum(c, ks) ==
    IF ks = {} THEN 0
    ELSE LET k == CHOOSE x \in ks : TRUE
         IN  c.nodeMap_[k].freq + LfuFreqSum(c, ks \ {k})

\* C25: in LfuCache after every call curTotalNum_ is the sum of the freq
\* fields of the resident entries, and it is never negative
C25_TotalIsSumOfFreqs ==
    /\ lfu.curTotalNum_ = LfuFreqSum(lfu, LfuKeys(lfu))
    /\ lfu.curTotalNum_ >= 0

\* the state after LfuCache(1, 2): put(2,1); put(1,1)
KickOutSubtractsKey ==
    /\ lfu.capacity_ = 1 /\ lfu.maxAverageNum_ = 2
    /\ last.op = "put" /\ last.key = 1 /\ last.gone = {2}
    /\ lfu.curTotalNum_ = 0
    /\ LfuFreqSum(lfu, LfuKeys(lfu)) = 1

\* the list holds the keys of nodeMap_ and each of them once
LruListIsIndex(c) ==
    /\ \A i \in 1..Len(c.list) : c.list[i].inMap
    /\ \A i, j \in 1..Len(c.list) : c.list[i].key = c.list[j].key => i = j

\* C26: in LruCache after every put, get or remove the list between the
\* sentinels holds exactly the keys of nodeMap_, each once; and a put of a
\* resident key replaces its value, moves its node to the most recent end
\* and evicts nothing
C26_ListIsIndex ==
    [][/\ LruListIsIndex(lru')
       /\ (/\ last'.op = "put"
           /\ lru.capacity_ >= 1
           /\ last'.key \in LruKeys(lru)) =>
             /\ LruKeys(lru') = LruKeys(lru)
             /\ lru'.list[Len(lru'.list)] = LruNodeOf(last'.key, last'.value)
             /\ LruEntriesBut(lru', last'.key) = LruEntriesBut(lru, last'.key)]_vars

\* the state after LruCache(2): put(0,1); put(1,1); put(1,1)
PutOfResidentEvicts ==
    /\ lru.capacity_ = 2
    /\ last.op = "put" /\ last.key = 1 /\ last.gone = {0}
    /\ LruKeys(lru) = {1}
    /\ Len(lru.list) = 2

\* history[k] in the cache c: 0 when k has no history entry
LruKHistory(c, k) == LruGet(c.historyList_, k).out

\* C27: in the LRU-K cache a put(k, v) of a key that is not resident in main
\* adds 1 to history[k] and, when the new count is >= K, inserts (k, v) into
\* main and removes k from the history in the same call; otherwise the
\* history holds the new count
C27_PutCountsAndAdmits ==
    [][(last'.op = "put" /\ last'.key \notin LruKeys(lruk.main)) =>
          IF LruKHistory(lruk, last'.key) + 1 >= lruk.k_
          THEN /\ last'.key \in LruKeys(lruk'.main)
               /\ LruGet(lruk'.main, last'.key).out = last'.value
               /\ last'.key \notin LruKeys(lruk'.historyList_)
          ELSE LruKHistory(lruk', last'.key) = LruKHistory(lruk, last'.key) + 1]_vars

\* the state after (capacity 1, historyCapacity 2, k 2): put(0,1); put(1,1); put(0,1)
AdmittedKeyKeepsHistory ==
    /\ lruk.main.capacity_ = 1 /\ lruk.historyList_.capacity_ = 2 /\ lruk.k_ = 2
    /\ last.op = "put" /\ last.key = 0 /\ last.gone = {1}
    /\ LruKeys(lruk.main) = {0}
    /\ LruKHistory(lruk, 0) = 2

\* the sum of the capacities of the two halves of a
ArcCapacitySum(a) == a.lruPart_.capacity_ + a.lfuPart_.capacity_

\* C28: in ArcCache the capacities of the two halves add up, in every state
\* between calls, to what they added up to at construction; no capacity is
\* below 0, and decreaseCapacity of a half of capacity 0 returns false and
\* changes nothing
C28_CapacitySumConstant ==
    /\ ArcCapacitySum(arc) = ArcCapacitySum(ArcNew(arc.capacity_, arc.transformThreshold_))
    /\ arc.lruPart_.capacity_ >= 0
    /\ arc.lfuPart_.capacity_ >= 0
    /\ arc.lruPart_.capacity_ = 0 =>
          ALruDecreaseCapacity(arc.lruPart_) = [part |-> arc.lruPart_, ret |-> FALSE]
    /\ arc.lfuPart_.capacity_ = 0 =>
          ALfuDecreaseCapacity(arc.lfuPart_) = [part |-> arc.lfuPart_, ret |-> FALSE]

\* C28 witness: ghost hits have moved the whole capacity of the frequency
\* half to the recency half
C28_Witness ==
    /\ arc.capacity_ >= 1
    /\ arc.lfuPart_.capacity_ = 0
    /\ arc.lruPart_.capacity_ > arc.capacity_

\* C28 witness: the capacity has moved the other way
C28_WitnessLfu ==
    /\ arc.capacity_ >= 1
    /\ arc.lfuPart_.capacity_ > arc.capacity_

\* the half q is the half p after exactly one resident, the key k, has gone
\* from its main cache into its own ghost list
EvictedInto(p, q, k) ==
    /\ k \in DOMAIN p.mainCache_
    /\ DOMAIN q.mainCache_ = DOMAIN p.mainCache_ \ {k}
    /\ k \in GhostKeys(q)

\* decreaseCapacity of the full half p has given q: the resident victim is
\* in the ghost list of q and the capacity is one less
ShrunkFull(p, q, victim) ==
    /\ EvictedInto(p, q, victim)
    /\ q.capacity_ = p.capacity_ - 1
    /\ PartSize(q) <= q.capacity_

\* the least-frequent resident of the frequency half p, the oldest of them
ALfuLeastFrequent(p) ==
    LET m == Min({p.mainCache_[k].accessCount : k \in DOMAIN p.mainCache_})
    IN  Head(SelectSeq(p.freqMap_[m], LAMBDA k : k \in DOMAIN p.mainCache_))

\* C29: in ArcCache each half holds at most its current capacity in every
\* state between calls; decreaseCapacity of a full half evicts exactly one
\* resident (the least recent, or the least frequent) into that half's own
\* ghost list and then takes one from the capacity; the insertion of a new
\* key into a full half evicts one resident into the ghost list first
C29_HalfWithinCapacity ==
    LET l == arc.lruPart_
        f == arc.lfuPart_
    IN  /\ PartSize(l) <= l.capacity_
        /\ PartSize(f) <= f.capacity_
        /\ (l.capacity_ > 0 /\ PartSize(l) = l.capacity_) =>
              /\ ShrunkFull(l, ALruDecreaseCapacity(l).part, l.mainList[Len(l.mainList)])
              /\ \A k \in Keys \ DOMAIN l.mainCache_ :
                    /\ EvictedInto(l, [ALruAddNewNode(l, k, 1) EXCEPT
                                          !.mainCache_ = MapErase(@, k)],
                                   l.mainList[Len(l.mainList)])
                    /\ PartSize(ALruAddNewNode(l, k, 1)) = l.capacity_
        /\ (f.capacity_ > 0 /\ PartSize(f) = f.capacity_) =>
              /\ ShrunkFull(f, ALfuDecreaseCapacity(f).part, ALfuLeastFrequent(f))
              /\ \A k \in Keys \ DOMAIN f.mainCache_ :
                    /\ EvictedInto(f, [ALfuAddNewNode(f, k, 1) EXCEPT
                                          !.mainCache_ = MapErase(@, k)],
                                   ALfuLeastFrequent(f))
                    /\ PartSize(ALfuAddNewNode(f, k, 1)) = f.capacity_

\* the number of mutexes that thread t holds
HeldCount(t) ==
    Cardinality({m \in {"lru", "lfu", "lruPart", "lfuPart"} : mutex[m] = t})
    + (IF "slices" \in DOMAIN mutex
       THEN Cardinality({i \in DOMAIN mutex.slices : mutex.slices[i] = t}) ELSE 0)

\* a thread holds at most one mutex, and none unless it is inside a method
\* that has locked: when it comes to lock, it holds nothing
NoHoldAndWait ==
    \A t \in Threads :
        /\ HeldCount(t) <= 1
        /\ thr[t].at = "none" => HeldCount(t) = 0

\* when a thread is inside a call, some thread inside a call can take a step
NoDeadlockState ==
    (\E t \in Threads : thr[t].pc # "idle") =>
        \E u \in Threads : ENABLED ThreadStep(u)

\* C30: with several threads calling put, get and remove of LruCache,
\* LfuCache, ArcCache and the sharded caches, no thread waits for a mutex
\* while it holds another, no state is a deadlock, and under fair scheduling
\* every call returns
C30_CallsReturn ==
    /\ [](NoHoldAndWait /\ NoDeadlockState)
    /\ \A t \in Threads : (thr[t].pc # "idle") ~> (thr[t].pc = "idle")

\* C30 witness: a thread has come to lock a mutex that the other thread holds
C30_Witness ==
    \E t, u \in Threads :
        /\ t # u
        /\ thr[t].pc # "idle" /\ thr[t].at = "none"
        /\ HeldCount(u) = 1
        /\ ~ENABLED ThreadStep(t)

\* C31: in ArcCache a get of a key that is resident in the recency half or
\* in the frequency half just before the call is a hit: the check of the
\* ghost lists and the move of capacity at the start of get do not evict
\* the key that is read
C31_GetOfResidentHits ==
    [][(last'.op = "get" /\ last'.key \in T1(arc) \cup T2(arc)) => last'.hit]_vars

\* every node of the ghost list of the half p is the node of its key in
\* ghostCache_, and no two nodes have the same key
GhostListIsMap(p) ==
    /\ \A i \in 1..Len(p.ghostList) : p.ghostList[i].inMap
    /\ \A i, j \in 1..Len(p.ghostList) :
          p.ghostList[i].key = p.ghostList[j].key => i = j

\* C32: in an ArcCache called by one caller no key is at once resident in a
\* half and in the ghost list of that half (T1 and B1 are disjoint, T2 and
\* B2 are disjoint), and each ghost map holds a key at most once, with
\* exactly one node in its ghost list
C32_GhostsApartFromResidents ==
    /\ T1(arc) \cap B1(arc) = {}
    /\ T2(arc) \cap B2(arc) = {}
    /\ GhostListIsMap(arc.lruPart_)
    /\ GhostListIsMap(arc.lfuPart_)

\* the longest sequence of calls that follows a purge and is compared
MaxRun == 2

\* put(k, v) on the cache c reaches handleOverMaxAverageNum with a node in
\* nodeMap_: the aging pass of addFreqNum
LfuPutAges(c, k) ==
    /\ c.capacity_ # 0
    /\ k \notin LfuKeys(c)
    /\ LET c1 == IF SizeEq(LfuSize(c), c.capacity_) THEN LfuKickOut(c) ELSE c
           c2 == [c1 EXCEPT !.nodeMap_ = MapPut(@, k, [freq |-> 1, value |-> 1]),
                            !.curTotalNum_ = @ + 1]
       IN  LfuAverage(c2) > c2.maxAverageNum_

\* the calls of a run: a put with the order in which its aging pass visits
\* nodeMap_, or a get
LfuRunCalls ==
    [op : {"put"}, key : Keys, value : Values, order : Orders(Keys)]
        \cup [op : {"get"}, key : Keys, value : {NoValue}, order : {<<>>}]

LfuRuns == UNION {[1..n -> LfuRunCalls] : n \in 1..MaxRun}

\* the cache after the call x on c, and what the caller and the lists see of it
LfuRunStep(c, x) ==
    IF x.op = "put"
    THEN LET c2 == LfuPut(c, x.key, x.value, x.order)
         IN  [cache |-> c2, hit |-> FALSE, out |-> NoValue,
              gone |-> LfuKeys(c) \ LfuKeys(c2), aged |-> LfuPutAges(c, x.key)]
    ELSE LET r == LfuGet(c, x.key)
         IN  [cache |-> r.cache, hit |-> r.hit, out |-> r.out,
              gone |-> LfuKeys(c) \ LfuKeys(r.cache), aged |-> FALSE]

\* the hits, values, evictions and aging passes of the calls of run on c
RECURSIVE LfuObserve(_, _)
LfuObserve(c, run) ==
    IF run = <<>> THEN <<>>
    ELSE LET r == LfuRunStep(c, Head(run))
         IN  <<[hit |-> r.hit, out |-> r.out, gone |-> r.gone, aged |-> r.aged]>>
                 \o LfuObserve(r.cache, Tail(run))

\* C33: after purge() of an LfuCache every get misses, and every sequence of
\* put and get that follows gives the hits, values, evictions and aging passes
\* that it gives on a cache newly constructed with the same capacity and
\* maxAverageNum
C33_PurgedIsFresh ==
    last.op = "purge" =>
        /\ \A k \in Keys : ~LfuGet(lfu, k).hit
        /\ \A run \in LfuRuns :
              LfuObserve(lfu, run)
                  = LfuObserve(LfuNew(lfu.capacity_, lfu.maxAverageNum_), run)

====
